---------------------------- MODULE Spec2Model ----------------------------
(***************************************************************************)
(* A model of the consensus manager (src/src/decision/consensus.py) and of *)
(* the engine's collaborative-decision driver (src/src/agent/engine.py).   *)
(*                                                                         *)
(* Conventions                                                             *)
(*  - An optional value (Python None / a value) is the empty sequence <<>> *)
(*    or the one-element sequence <<x>>.                                   *)
(*  - A Python dict is insertion ordered: it is a record                   *)
(*    [keys |-> sequence of keys, val |-> function on those keys].         *)
(*  - Weights are small naturals and a threshold is a number of tenths, so *)
(*    a ratio yes/total is the pair <<yes, total>> and is compared by      *)
(*    cross multiplication (for these operands the float division and      *)
(*    comparison of the source are exact in that sense).                   *)
(*  - UUIDs are small integers; a fresh uuid4() is the next unused one.    *)
(***************************************************************************)
EXTENDS Integers, Sequences, FiniteSets, TLC

VARIABLES
    sessions,      \* ConsensusManager._sessions : proposal id -> VotingSession
    decision_log,  \* ConsensusManager._decision_log
    message_log,   \* MessageBus._message_log
    round,         \* the run_voting_round call in progress (its coroutine frame)
    ret,           \* the kind of value the last ConsensusManager call made from
                   \* outside returned (None is "NoVote" from cast_vote and
                   \* "NoDecision" from close_voting and run_voting_round)
    rcd_result,    \* what the last run_collaborative_decision call returned
    agents,        \* AgentEngine._agents : agent id -> the agent's entity
    overwrote,     \* ghost: the last step replaced a live vote of its voter
    queues,        \* MessageBus._agent_queues : agent id -> its mailbox
    subscribers,   \* MessageBus._subscribers of the one topic in use
    bus_running,   \* MessageBus._running
    engine_running,\* AgentEngine._running
    kill_switch,   \* AgentEngine._kill_switch
    running,       \* BaseAgent._running of every agent object
    pc,            \* where each loop task stands (an await of its code)
    cur,           \* the message the loop task's _handle_message is handling
    agent_tasks,   \* AgentEngine._agent_tasks : the agents holding a task handle
    assigned,      \* Task.assigned_agents of the task given to assign_task
    last,          \* ghost: the operation of the last step and its agent
    utility,       \* the UtilityFunction last constructed and what it was given
    detached,      \* the entities of the agent objects outside the registry
    knowledge,     \* BaseAgent._knowledge of every agent object
    held           \* the loop task AgentEngine._agent_tasks holds for an agent

\* the state of the ConsensusManager and of its callers' frames, and the
\* state of the bus, the engine's lifecycle and the agents' loops
utilityVars == <<utility>>
auxVars == <<detached, knowledge, held>>
consensusVars == <<sessions, decision_log, round, ret, rcd_result, overwrote>>
agentVars == <<queues, subscribers, bus_running, engine_running, kill_switch,
               running, pc, cur, agent_tasks, assigned, last>>

vars == <<sessions, decision_log, message_log, round, ret, rcd_result, agents,
          overwrote, queues, subscribers, bus_running, engine_running,
          kill_switch, running, pc, cur, agent_tasks, assigned, last, utility,
          detached, knowledge, held>>

---------------------------------------------------------------------------
(* Bounds of the model *)

NumAgents == 2        \* agents in the engine's registry
MaxWeight == 2        \* vote weights are 1..MaxWeight
MaxOpt == 1           \* a vote selects an option index in -1..MaxOpt

\* the ids create_proposal hands out in one behaviour, and the voter ids the
\* direct callers of the ConsensusManager name
ProposalIds == {1}
VoterIds == {1, 2}

(* Program constants *)

default_threshold == 5   \* ConsensusManager.default_threshold = 0.5, in tenths
ThresholdDen == 10       \* thresholds are counted in tenths

None == <<>>
Some(x) == <<x>>

VoteTypes == {"yes", "no", "abstain"}
Weights == 1..MaxWeight
OptIdx == (-1)..MaxOpt
OptionLists == {<<>>, <<"A", "B">>}
ThresholdInputs == {None, Some(0), Some(6)}
\* ... and with thresholds below 0 and above 1 (in tenths)
ThresholdInputsAll == ThresholdInputs \cup {Some(-1), Some(11)}

\* an id no create_proposal hands out, and the ids a call can name
UnknownId == Cardinality(ProposalIds) + 1
TargetIds == ProposalIds \cup {UnknownId}

\* the (vote type, selected option) pairs a voter can answer
VoteInputs == {<<"yes", o>> : o \in OptIdx} \cup {<<"no", 0>>, <<"abstain", 0>>}


---------------------------------------------------------------------------
(* Python's insertion-ordered dict *)

EmptyDict == [keys |-> <<>>, val |-> <<>>]

InSeq(x, seq) == \E i \in 1..Len(seq) : seq[i] = x

HasKey(d, k) == InSeq(k, d.keys)

\* d[k] = v : an existing key keeps its position, a new key goes last
DictSet(d, k, v) ==
    IF HasKey(d, k)
    THEN [keys |-> d.keys, val |-> [x \in DOMAIN d.val |-> IF x = k THEN v ELSE d.val[x]]]
    ELSE [keys |-> Append(d.keys, k),
          val |-> [x \in (DOMAIN d.val) \cup {k} |-> IF x = k THEN v ELSE d.val[x]]]

\* d.get(k, default)
DictGet(d, k, default) == IF HasKey(d, k) THEN d.val[k] ELSE default

\* seq[idx] with Python's indexing: a negative index counts from the end,
\* Some(item), or None for an IndexError
PyIndex(seq, idx) ==
    IF idx >= 0 /\ idx < Len(seq) THEN Some(seq[idx + 1])
    ELSE IF idx < 0 /\ idx + Len(seq) >= 0 THEN Some(seq[idx + Len(seq) + 1])
    ELSE None

---------------------------------------------------------------------------
(* Records of the data model *)

Proposal(id, proposer_id, options, threshold) ==
    [id |-> id, proposer_id |-> proposer_id, options |-> options,
     threshold |-> threshold]

VotingSession(proposal) ==
    [proposal |-> proposal, votes |-> EmptyDict, closed |-> FALSE, result |-> None]

Vote(proposal_id, voter_id, vote, selected_option, weight, rationale) ==
    [proposal_id |-> proposal_id, voter_id |-> voter_id, vote |-> vote,
     selected_option |-> selected_option, weight |-> weight,
     rationale |-> rationale]

---------------------------------------------------------------------------
(* ConsensusManager *)

\* a ratio is <<numerator, denominator>>, denominator > 0
RatGeq(r, num, den) == r[1] * den >= num * r[2]
RatLess(r, num, den) == r[1] * den < num * r[2]
RatEq(r, q) == r[1] * q[2] = q[1] * r[2]

\* create_proposal: `threshold or self.default_threshold`
EffectiveThreshold(threshold) ==
    IF threshold = None \/ threshold = Some(0) THEN default_threshold
    ELSE threshold[1]

create_proposal(s, proposer_id, options, threshold) ==
    LET id == Len(s) + 1
        proposal == Proposal(id, proposer_id, options, EffectiveThreshold(threshold))
    IN  [sessions |-> Append(s, VotingSession(proposal)), proposal |-> proposal]

Known(s, proposal_id) == proposal_id \in DOMAIN s

\* voter_id has a live vote that a cast_vote on proposal_id would replace
Replaces(s, proposal_id, voter_id) ==
    /\ Known(s, proposal_id)
    /\ ~s[proposal_id].closed
    /\ HasKey(s[proposal_id].votes, voter_id)

\* cast_vote without the check of session.closed (C4 fails on it)
cast_vote_unguarded(s, proposal_id, voter_id, vote_type, selected_option, weight, rationale) ==
    IF ~Known(s, proposal_id)
    THEN [sessions |-> s, ret |-> "NoVote"]
    ELSE [sessions |-> [s EXCEPT ![proposal_id].votes =
                           DictSet(@, voter_id,
                                   Vote(proposal_id, voter_id, vote_type,
                                        selected_option, weight, rationale))],
          ret |-> "Vote"]

\* cast_vote building and returning the Vote before it looks at the session,
\* recording it only in an open one (C5 fails on it)
cast_vote_returning(s, proposal_id, voter_id, vote_type, selected_option, weight, rationale) ==
    IF ~Known(s, proposal_id) \/ s[proposal_id].closed
    THEN [sessions |-> s, ret |-> "Vote"]
    ELSE [sessions |-> [s EXCEPT ![proposal_id].votes =
                           DictSet(@, voter_id,
                                   Vote(proposal_id, voter_id, vote_type,
                                        selected_option, weight, rationale))],
          ret |-> "Vote"]

\* cast_vote adding the new weight to the weight of the voter's earlier vote
\* (C6 fails on it)
cast_vote_accumulating(s, proposal_id, voter_id, vote_type, selected_option, weight, rationale) ==
    IF ~Known(s, proposal_id) \/ s[proposal_id].closed
    THEN [sessions |-> s, ret |-> "NoVote"]
    ELSE LET votes == s[proposal_id].votes
             earlier == IF HasKey(votes, voter_id) THEN votes.val[voter_id].weight ELSE 0
         IN  [sessions |-> [s EXCEPT ![proposal_id].votes =
                                DictSet(@, voter_id,
                                        Vote(proposal_id, voter_id, vote_type,
                                             selected_option, weight + earlier,
                                             rationale))],
              ret |-> "Vote"]

\* cast_vote: [sessions, ret], ret the kind of the value returned
cast_vote(s, proposal_id, voter_id, vote_type, selected_option, weight, rationale) ==
    IF ~Known(s, proposal_id) \/ s[proposal_id].closed
    THEN [sessions |-> s, ret |-> "NoVote"]
    ELSE LET vote == Vote(proposal_id, voter_id, vote_type, selected_option,
                          weight, rationale)
         IN  [sessions |-> [s EXCEPT ![proposal_id].votes = DictSet(@, voter_id, vote)],
              ret |-> "Vote"]

\* the accumulators of get_vote_tally's loop
TallyStart == [yes_weight |-> 0, no_weight |-> 0, abstain_weight |-> 0,
               option_votes |-> EmptyDict]

\* the loop step without the abstain branch (C7 fails on it)
TallyStep_no_abstain(acc, vote) ==
    IF vote.vote = "yes"
    THEN [acc EXCEPT !.yes_weight = @ + vote.weight,
                     !.option_votes =
                         DictSet(@, vote.selected_option,
                                 DictGet(@, vote.selected_option, 0) + vote.weight)]
    ELSE IF vote.vote = "no"
    THEN [acc EXCEPT !.no_weight = @ + vote.weight]
    ELSE acc

TallyStep(acc, vote) ==
    IF vote.vote = "yes"
    THEN [acc EXCEPT !.yes_weight = @ + vote.weight,
                     !.option_votes =
                         DictSet(@, vote.selected_option,
                                 DictGet(@, vote.selected_option, 0) + vote.weight)]
    ELSE IF vote.vote = "no"
    THEN [acc EXCEPT !.no_weight = @ + vote.weight]
    ELSE [acc EXCEPT !.abstain_weight = @ + vote.weight]

RECURSIVE TallyLoop(_, _, _)
TallyLoop(votes, i, acc) ==
    IF i > Len(votes.keys) THEN acc
    ELSE TallyLoop(votes, i + 1, TallyStep(acc, votes.val[votes.keys[i]]))

\* get_vote_tally of a known session
get_vote_tally(s, proposal_id) ==
    LET session == s[proposal_id]
        acc == TallyLoop(session.votes, 1, TallyStart)
        total_weight == acc.yes_weight + acc.no_weight + acc.abstain_weight
        yes_ratio == IF total_weight > 0 THEN <<acc.yes_weight, total_weight>>
                     ELSE <<0, 1>>
    IN  [yes_weight |-> acc.yes_weight,
         no_weight |-> acc.no_weight,
         abstain_weight |-> acc.abstain_weight,
         total_weight |-> total_weight,
         yes_ratio |-> yes_ratio,
         option_votes |-> acc.option_votes,
         vote_count |-> Len(session.votes.keys),
         threshold |-> session.proposal.threshold,
         would_pass |-> RatGeq(yes_ratio, session.proposal.threshold, ThresholdDen)]

\* max(option_votes, key=option_votes.get): the first key, in the dict's
\* order, holding the greatest value
\* the scan keeping the last of the greatest values (C8 fails on it)
RECURSIVE MaxKeyLoop_last(_, _, _)
MaxKeyLoop_last(d, i, best) ==
    IF i > Len(d.keys) THEN best
    ELSE MaxKeyLoop_last(d, i + 1,
                         IF d.val[d.keys[i]] >= d.val[best] THEN d.keys[i] ELSE best)

RECURSIVE MaxKeyLoop(_, _, _)
MaxKeyLoop(d, i, best) ==
    IF i > Len(d.keys) THEN best
    ELSE MaxKeyLoop(d, i + 1,
                    IF d.val[d.keys[i]] > d.val[best] THEN d.keys[i] ELSE best)

MaxKey(d) == MaxKeyLoop(d, 2, d.keys[1])

\* proposal_id is a ghost field: the proposal the record was made for
Decision(proposal_id, options, selected_option, passed, consensus_score, votes) ==
    [proposal_id |-> proposal_id,
     options_considered |-> options,
     selected_option |-> selected_option,
     rationale |-> IF passed THEN "Consensus reached" ELSE "Consensus not reached",
     consensus_score |-> consensus_score,
     votes |-> votes]

\* the result with > in place of >= (C9 fails on it)
CloseResult_strict(tally) ==
    IF ~RatGeq(<<tally.threshold, ThresholdDen>>, tally.yes_ratio[1], tally.yes_ratio[2])
    THEN "accepted" ELSE "rejected"

\* the session result of a close, from the tally
CloseResult(tally) == IF tally.would_pass THEN "accepted" ELSE "rejected"

\* close_voting: [sessions, decision_log, ret]; ret is "NoDecision", "Decision", or
\* "IndexError" when options[winning_idx] raises after session.closed was set
close_voting(s, log, proposal_id) ==
    IF ~Known(s, proposal_id) \/ s[proposal_id].closed
    THEN [sessions |-> s, decision_log |-> log, ret |-> "NoDecision"]
    ELSE
    LET closed == [s EXCEPT ![proposal_id].closed = TRUE]
        session == closed[proposal_id]
        tally == get_vote_tally(closed, proposal_id)
        lookup == tally.would_pass /\ tally.option_votes.keys # <<>>
                  /\ MaxKey(tally.option_votes) < Len(session.proposal.options)
        opt_data == PyIndex(session.proposal.options, MaxKey(tally.option_votes))
        selected_option == IF lookup THEN opt_data ELSE None
        decision == Decision(proposal_id, session.proposal.options, selected_option,
                             tally.would_pass, tally.yes_ratio,
                             [v \in DOMAIN session.votes.val |->
                                  session.votes.val[v].vote])
    IN  IF lookup /\ opt_data = None
        THEN [sessions |-> closed, decision_log |-> log, ret |-> "IndexError"]
        ELSE [sessions |-> [closed EXCEPT ![proposal_id].result =
                               Some(CloseResult(tally))],
              decision_log |-> Append(log, decision),
              ret |-> "Decision"]


---------------------------------------------------------------------------
(* The engine's registry *)

\* the loop tasks: start_agent creates a task for agent a in slot a, or in
\* slot a + NumAgents while the task in slot a is alive
Loops == 1..(2 * NumAgents)
AgentOf(l) == ((l - 1) % NumAgents) + 1

AgentRoles == {"leader", "worker", "observer"}
Capabilities == {"finance", "ops"}

\* Agent entity: the first registered agent leads; expertise_score keeps the
\* default of the dataclass, 1.0
Agent(id) ==
    [id |-> id,
     role |-> IF id = 1 THEN "leader" ELSE "worker",
     status |-> "idle",
     capabilities |-> IF id % 2 = 1 THEN {"finance"} ELSE {"finance", "ops"},
     expertise_score |-> 1]

RECURSIVE RegisterAll(_, _)
RegisterAll(d, id) ==
    IF id > NumAgents THEN d ELSE RegisterAll(DictSet(d, id, Agent(id)), id + 1)

\* get_agents_by_role, as agent ids in registry order
get_agents_by_role(reg, role) ==
    LET Keep(a) == reg.val[a].role = role IN SelectSeq(reg.keys, Keep)

\* the voter selection without the role filter (C29 fails on it)
SelectVoters_any_role(reg, voter_role, required_capability) ==
    LET KeepCap(a) == required_capability = None
                      \/ required_capability[1] \in reg.val[a].capabilities
    IN  SelectSeq(reg.keys, KeepCap)

\* the voter selection of run_collaborative_decision, as agent ids
SelectVoters(reg, voter_role, required_capability) ==
    LET KeepRole(a) == voter_role = None \/ reg.val[a].role = voter_role[1]
        KeepCap(a) == required_capability = None
                      \/ required_capability[1] \in reg.val[a].capabilities
    IN  SelectSeq(SelectSeq(reg.keys, KeepRole), KeepCap)

Message(type, sender_id, recipient_id, topic, payload) ==
    [type |-> type, sender_id |-> sender_id, recipient_id |-> recipient_id,
     topic |-> topic, payload |-> payload]

---------------------------------------------------------------------------
(* run_voting_round: the frame of the call in progress *)

NoRound == [status |-> "idle", proposal_id |-> 0, voters |-> <<>>,
            pending |-> {}, caller |-> "none"]

StartRound(proposal_id, voters, caller) ==
    [status |-> "collecting", proposal_id |-> proposal_id, voters |-> voters,
     pending |-> {voters[i][1] : i \in 1..Len(voters)}, caller |-> caller]

\* collect_vote(agent_id) has ended: the frame keeps the voters whose
\* collect_vote is still running
Resolved(r, agent_id) ==
    LET Keep(v) == v[1] # agent_id
    IN  [r EXCEPT !.pending = @ \ {agent_id}, !.voters = SelectSeq(@, Keep)]

\* the weight declared for agent_id in the voters list
DeclaredWeight(voters, agent_id) ==
    voters[CHOOSE i \in 1..Len(voters) : voters[i][1] = agent_id][2]

\* the except-branch casting weight 1, not the declared one (C2 fails on it)
timeout_vote_unit(s, proposal_id, agent_id, weight) ==
    cast_vote(s, proposal_id, agent_id, "abstain", 0, 1, "timeout")

\* the except-branch of collect_vote
timeout_vote(s, proposal_id, agent_id, weight) ==
    cast_vote(s, proposal_id, agent_id, "abstain", 0, weight, "timeout")

\* the return value without `passed and` before the option lookup
\* (C10 fails on it)
rcd_return_unconditional(s, proposal_id) ==
    LET tally == get_vote_tally(s, proposal_id)
    IN  [kind |-> "result", passed |-> tally.would_pass,
         winning_option |-> IF tally.option_votes.keys # <<>>
                            THEN Some(MaxKey(tally.option_votes)) ELSE None,
         proposal_id |-> proposal_id]

\* what run_collaborative_decision returns after the round; the tally
\* snapshot it returns with it is get_vote_tally of the closed session
rcd_return(s, proposal_id) ==
    LET tally == get_vote_tally(s, proposal_id)
        passed == tally.would_pass
    IN  [kind |-> "result", passed |-> passed,
         winning_option |-> IF passed /\ tally.option_votes.keys # <<>>
                            THEN Some(MaxKey(tally.option_votes)) ELSE None,
         proposal_id |-> proposal_id]

NoVotersResult ==
    [kind |-> "No eligible voters", passed |-> FALSE, winning_option |-> None,
     proposal_id |-> 0]

RaisedResult(proposal_id) ==
    [kind |-> "raised", passed |-> FALSE, winning_option |-> None,
     proposal_id |-> proposal_id]

\* no UtilityFunction has been constructed yet
NoUtility == [built |-> FALSE, given |-> None, w |-> <<0, 0, 0>>, den |-> 1]

\* ghost: no operation of the bus, the engine or an agent has run yet
NoOp == [op |-> "none", agent |-> 0]

---------------------------------------------------------------------------
(* Initial state: a constructed engine with NumAgents registered agents *)

InitWith(reg) ==
    /\ sessions = <<>>
    /\ decision_log = <<>>
    /\ message_log = <<>>
    /\ round = NoRound
    /\ ret = "NoCall"
    /\ rcd_result = None
    /\ agents = reg
    /\ overwrote = FALSE
    /\ queues = [a \in 1..NumAgents |-> <<>>]
    /\ subscribers = <<>>
    /\ bus_running = FALSE
    /\ engine_running = FALSE
    /\ kill_switch = FALSE
    /\ running = [a \in 1..NumAgents |-> FALSE]
    /\ pc = [l \in Loops |-> "none"]
    /\ cur = [l \in Loops |-> None]
    /\ agent_tasks = {}
    /\ assigned = <<>>
    /\ last = NoOp
    /\ utility = NoUtility
    /\ detached = <<>>
    /\ knowledge = [a \in 1..NumAgents |-> [k \in {} |-> 0]]
    /\ held = [a \in 1..NumAgents |-> a]

Init == InitWith(RegisterAll(EmptyDict, 1))

---------------------------------------------------------------------------
(* Calls of the ConsensusManager API *)

CreateProposal(proposer_id, options, threshold) ==
    /\ Len(sessions) + 1 \in ProposalIds
    /\ sessions' = create_proposal(sessions, proposer_id, options, threshold).sessions
    /\ ret' = "Proposal"
    /\ overwrote' = FALSE
    /\ UNCHANGED <<decision_log, message_log, round, rcd_result, agents>>
    /\ UNCHANGED <<agentVars, utilityVars, auxVars>>

CastVote(proposal_id, voter_id, vote_type, selected_option, weight) ==
    LET r == cast_vote(sessions, proposal_id, voter_id, vote_type,
                       selected_option, weight, "ok")
    IN  /\ sessions' = r.sessions
        /\ ret' = r.ret
        /\ overwrote' = Replaces(sessions, proposal_id, voter_id)
        /\ UNCHANGED <<decision_log, message_log, round, rcd_result, agents>>
        /\ UNCHANGED <<agentVars, utilityVars, auxVars>>

CloseVoting(proposal_id) ==
    LET r == close_voting(sessions, decision_log, proposal_id)
    IN  /\ sessions' = r.sessions
        /\ decision_log' = r.decision_log
        /\ ret' = r.ret
        /\ overwrote' = FALSE
        /\ UNCHANGED <<message_log, round, rcd_result, agents>>
        /\ UNCHANGED <<agentVars, utilityVars, auxVars>>

\* run_voting_round up to its await of gather: one collect_vote per voter
RunVotingRound(proposal_id, voters) ==
    /\ round.status # "collecting"
    /\ Known(sessions, proposal_id)
    /\ voters # <<>>
    /\ round' = StartRound(proposal_id, voters, "direct")
    /\ overwrote' = FALSE
    /\ UNCHANGED <<sessions, decision_log, message_log, ret, rcd_result, agents>>
    /\ UNCHANGED <<agentVars, utilityVars, auxVars>>

RoundLive == round.status \in {"collecting", "raised"}

\* collect_vote(agent_id): the callback answered within the timeout
CollectAnswer(agent_id, vote_type, selected_option) ==
    /\ RoundLive
    /\ agent_id \in round.pending
    /\ sessions' = cast_vote(sessions, round.proposal_id, agent_id, vote_type,
                             selected_option,
                             DeclaredWeight(round.voters, agent_id), "ok").sessions
    /\ round' = Resolved(round, agent_id)
    /\ overwrote' = Replaces(sessions, round.proposal_id, agent_id)
    /\ UNCHANGED <<decision_log, message_log, ret, rcd_result, agents>>
    /\ UNCHANGED <<agentVars, utilityVars, auxVars>>

\* collect_vote(agent_id): wait_for raised asyncio.TimeoutError
CollectTimeout(agent_id) ==
    /\ RoundLive
    /\ agent_id \in round.pending
    /\ sessions' = timeout_vote(sessions, round.proposal_id, agent_id,
                                DeclaredWeight(round.voters, agent_id)).sessions
    /\ round' = Resolved(round, agent_id)
    /\ overwrote' = Replaces(sessions, round.proposal_id, agent_id)
    /\ UNCHANGED <<decision_log, message_log, ret, rcd_result, agents>>
    /\ UNCHANGED <<agentVars, utilityVars, auxVars>>

\* collect_vote(agent_id): the callback raised another exception; gather
\* (return_exceptions is not set) hands the first one to run_voting_round,
\* which ends without close_voting, while the other collect_votes go on
CollectRaise(agent_id) ==
    /\ RoundLive
    /\ agent_id \in round.pending
    /\ round' = [Resolved(round, agent_id) EXCEPT !.status = "raised"]
    /\ ret' = IF round.status = "collecting" /\ round.caller = "direct"
              THEN "Raised" ELSE ret
    /\ rcd_result' = IF round.status = "collecting" /\ round.caller = "engine"
                     THEN RaisedResult(round.proposal_id) ELSE rcd_result
    /\ overwrote' = FALSE
    /\ UNCHANGED <<sessions, decision_log, message_log, agents>>
    /\ UNCHANGED <<agentVars, utilityVars, auxVars>>

\* gather returned: return self.close_voting(proposal.id), and for the engine
\* the rest of run_collaborative_decision
RoundClose ==
    /\ round.status = "collecting"
    /\ round.pending = {}
    /\ LET r == close_voting(sessions, decision_log, round.proposal_id)
       IN  /\ sessions' = r.sessions
           /\ decision_log' = r.decision_log
           /\ round' = [round EXCEPT !.status =
                            IF r.ret = "IndexError" THEN "raised" ELSE "returned"]
           /\ ret' = IF round.caller = "direct" THEN r.ret ELSE ret
           /\ rcd_result' =
                 IF round.caller # "engine" THEN rcd_result
                 ELSE IF r.ret = "IndexError" THEN RaisedResult(round.proposal_id)
                 ELSE rcd_return(r.sessions, round.proposal_id)
    /\ overwrote' = FALSE
    /\ UNCHANGED <<message_log, agents>>
    /\ UNCHANGED <<agentVars, utilityVars, auxVars>>

---------------------------------------------------------------------------
(* AgentEngine.run_collaborative_decision *)

\* with no eligible voter: the structured error, nothing else
RunCollaborativeDecisionNoVoters(voter_role, required_capability) ==
    /\ round.status # "collecting"
    /\ SelectVoters(agents, voter_role, required_capability) = <<>>
    /\ rcd_result' = NoVotersResult
    /\ overwrote' = FALSE
    /\ UNCHANGED <<sessions, decision_log, message_log, round, ret, agents>>
    /\ UNCHANGED <<agentVars, utilityVars, auxVars>>

\* up to the await of run_voting_round's gather
RunCollaborativeDecision(options, voter_role, required_capability, threshold) ==
    LET voters == SelectVoters(agents, voter_role, required_capability)
        leader == get_agents_by_role(agents, "leader")
        proposer_id == IF leader # <<>> THEN leader[1] ELSE voters[1]
        c == create_proposal(sessions, proposer_id, options, threshold)
    IN  /\ round.status # "collecting"
        /\ voters # <<>>
        /\ Len(sessions) + 1 \in ProposalIds
        /\ sessions' = c.sessions
        /\ message_log' = Append(message_log,
                                 Message("proposal", Some(proposer_id), None,
                                         <<"proposal", c.proposal.id>>, c.proposal))
        /\ round' = StartRound(c.proposal.id,
                               [i \in 1..Len(voters) |->
                                    <<voters[i], agents.val[voters[i]].expertise_score>>],
                               "engine")
        /\ overwrote' = FALSE
        /\ UNCHANGED <<decision_log, ret, rcd_result, agents>>
        /\ UNCHANGED <<agentVars, utilityVars, auxVars>>

---------------------------------------------------------------------------
(* The voters lists given to a direct run_voting_round: the voters of S in
   ascending order, the first voter with weight MaxWeight, the others 1 *)
RoundWeight(v) == IF v = 1 THEN MaxWeight ELSE 1

RECURSIVE VoterList(_)
VoterList(S) ==
    IF S = {} THEN <<>>
    ELSE LET v == CHOOSE x \in S : \A y \in S : x <= y
         IN  <<<<v, RoundWeight(v)>>>> \o VoterList(S \ {v})

\* the ConsensusManager driven directly by its callers
Next ==
    \/ \E o \in OptionLists, t \in ThresholdInputs : CreateProposal(1, o, t)
    \/ \E p \in ProposalIds, v \in VoterIds, a \in VoteInputs, w \in Weights :
           CastVote(p, v, a[1], a[2], w)
    \/ \E v \in VoterIds : CastVote(UnknownId, v, "yes", 0, 1)
    \/ \E p \in TargetIds : CloseVoting(p)
    \/ \E p \in ProposalIds, S \in SUBSET VoterIds : RunVotingRound(p, VoterList(S))
    \/ \E v \in VoterIds, a \in VoteInputs : CollectAnswer(v, a[1], a[2])
    \/ \E v \in VoterIds : CollectTimeout(v)
    \/ \E v \in VoterIds : CollectRaise(v)
    \/ RoundClose

Spec == Init /\ [][Next]_vars

\* the engine's collaborative decisions, with voters and outside callers
\* acting on the ConsensusManager meanwhile
NextEngine ==
    \/ \E r \in {None} \cup {Some(x) : x \in AgentRoles},
          c \in {None} \cup {Some(x) : x \in Capabilities} :
           RunCollaborativeDecisionNoVoters(r, c)
    \/ \E o \in OptionLists, t \in ThresholdInputs,
          r \in {None} \cup {Some(x) : x \in AgentRoles},
          c \in {None} \cup {Some(x) : x \in Capabilities} :
           RunCollaborativeDecision(o, r, c, t)
    \/ \E v \in 1..NumAgents, a \in VoteInputs : CollectAnswer(v, a[1], a[2])
    \/ \E v \in 1..NumAgents : CollectTimeout(v)
    \/ \E v \in 1..NumAgents : CollectRaise(v)
    \/ RoundClose
    \/ \E p \in TargetIds : CloseVoting(p)

SpecEngine == Init /\ [][NextEngine]_vars

---------------------------------------------------------------------------
(* MessageBus *)

MaxLog == 3    \* calls from outside are made while the audit log is shorter
MaxSubs == 2   \* handlers subscribed to the topic
MaxLimit == 2  \* get_message_log is read with limits 0..MaxLimit

\* the types publish fans out to every mailbox, and the one topic in use
BroadcastTypes == {"broadcast", "state_update", "emergency_halt"}
Topics == {"", "t"}
Handlers == {"ok", "raises"}

\* a payload: the task a TASK_ASSIGN or REJECT is about, and a reason
Payload(task, reason) == [task |-> task, reason |-> reason]
NoPayload == Payload(0, "")

\* publish with the fan-out not limited to messages without a recipient
\* (C20 fails on it)
publish_fanout_any(q, log, subs, message) ==
    LET direct == message.recipient_id # None /\ message.recipient_id[1] \in DOMAIN q
        fanout == message.type \in BroadcastTypes
    IN  [message_log |-> Append(log, message),
         queues |-> IF direct
                    THEN [q EXCEPT ![message.recipient_id[1]] = Append(@, message)]
                    ELSE IF fanout
                    THEN [a \in DOMAIN q |->
                             IF Some(a) # message.sender_id THEN Append(q[a], message)
                             ELSE q[a]]
                    ELSE q,
         notified |-> IF direct \/ message.topic = "" THEN 0 ELSE Len(subs),
         raised |-> FALSE]

\* the position of the first handler that raises, 0 when none does
RECURSIVE FirstRaise(_, _)
FirstRaise(subs, i) ==
    IF i > Len(subs) THEN 0
    ELSE IF subs[i] = "raises" THEN i ELSE FirstRaise(subs, i + 1)

\* publish without the try/except around the handler call: the exception of
\* a handler ends the publish (C23 fails on it)
publish_handler_escapes(q, log, subs, message) ==
    LET direct == message.recipient_id # None /\ message.recipient_id[1] \in DOMAIN q
        fanout == message.recipient_id = None /\ message.type \in BroadcastTypes
        escapes == ~direct /\ message.topic # "" /\ FirstRaise(subs, 1) # 0
    IN  [message_log |-> Append(log, message),
         queues |-> IF direct
                    THEN [q EXCEPT ![message.recipient_id[1]] = Append(@, message)]
                    ELSE IF fanout /\ ~escapes
                    THEN [a \in DOMAIN q |->
                             IF Some(a) # message.sender_id THEN Append(q[a], message)
                             ELSE q[a]]
                    ELSE q,
         notified |-> IF direct \/ message.topic = "" THEN 0
                      ELSE IF escapes THEN FirstRaise(subs, 1) ELSE Len(subs),
         raised |-> escapes]

\* publish: [message_log, queues, notified, raised], notified the number of
\* topic handlers called (one that raises is caught and the next one is
\* called), raised whether an exception leaves publish. q is the mailbox
\* map, subs the handlers of topic "t"
publish(q, log, subs, message) ==
    LET direct == message.recipient_id # None /\ message.recipient_id[1] \in DOMAIN q
        fanout == message.recipient_id = None /\ message.type \in BroadcastTypes
    IN  [message_log |-> Append(log, message),
         queues |-> IF direct
                    THEN [q EXCEPT ![message.recipient_id[1]] = Append(@, message)]
                    ELSE IF fanout
                    THEN [a \in DOMAIN q |->
                             IF Some(a) # message.sender_id THEN Append(q[a], message)
                             ELSE q[a]]
                    ELSE q,
         notified |-> IF direct \/ message.topic = "" THEN 0 ELSE Len(subs),
         raised |-> FALSE]

\* send_direct that leaves the message's own sender_id (C24 fails on it)
send_direct_unstamped(q, log, subs, sender_id, recipient_id, message) ==
    publish(q, log, subs, [message EXCEPT !.recipient_id = recipient_id])

send_direct(q, log, subs, sender_id, recipient_id, message) ==
    publish(q, log, subs,
            [message EXCEPT !.sender_id = sender_id, !.recipient_id = recipient_id])

broadcast(q, log, subs, sender_id, message) ==
    publish(q, log, subs, [message EXCEPT !.sender_id = sender_id, !.recipient_id = None])

\* get_message_log: self._message_log[-limit:]
get_message_log(log, limit) ==
    IF limit = 0 THEN log
    ELSE IF limit > 0
    THEN SubSeq(log, IF Len(log) > limit THEN Len(log) - limit + 1 ELSE 1, Len(log))
    ELSE SubSeq(log, (IF Len(log) > -limit THEN -limit ELSE Len(log)) + 1, Len(log))

\* deregister_agent leaving the mailbox in place (C40 fails on it)
bus_deregister_agent_keeps(q, agent_id) == q

\* deregister_agent: del self._agent_queues[agent_id]
bus_deregister_agent(q, agent_id) == [a \in (DOMAIN q) \ {agent_id} |-> q[a]]

---------------------------------------------------------------------------
(* UtilityFunction: a weight is a fraction, the three weights of a
   UtilityWeights share one denominator *)

MaxUtilWeight == 3   \* a given weight is one of -1..MaxUtilWeight tenths

\* the tenths weights are written in, and the defaults 0.4, 0.3, 0.3
Tenths == 10
DefaultWeights == <<4, 3, 3>>

\* UtilityWeights(success_probability, resource_cost, time_efficiency),
\* each w[i] / den
UtilityWeights(w, den) == [w |-> w, den |-> den]

\* UtilityWeights.normalize: the weights divided by their total when the
\* total is positive, else left as they are
normalize(uw) ==
    LET total == uw.w[1] + uw.w[2] + uw.w[3]
    IN  IF total > 0 THEN UtilityWeights(uw.w, total) ELSE uw

\* UtilityFunction.__init__: weights or UtilityWeights(), normalized (a
\* UtilityWeights object is never falsy)
UtilityFunction(given) ==
    normalize(IF given = None THEN UtilityWeights(DefaultWeights, Tenths)
              ELSE UtilityWeights(given[1], Tenths))

---------------------------------------------------------------------------
(* BaseAgent *)

HookPcs == {"execute_task", "evaluate_proposal", "on_message", "autonomous_cycle"}

Status(reg, a) == reg.val[a].status
SetStatus(reg, a, s) == [reg EXCEPT !.val[a].status = s]

\* del d[k]
DictDel(d, k) ==
    LET Keep(x) == x # k
    IN  [keys |-> SelectSeq(d.keys, Keep),
         val |-> [x \in (DOMAIN d.val) \ {k} |-> d.val[x]]]

\* the task given to assign_task, and what it requires
TaskId == 1
required_capabilities(task) == IF task = TaskId THEN {"finance", "ops"} ELSE {}

\* Task: its id, its priority (the dataclass default) and what it requires
TaskPriority == 5
Task(id, priority, caps) ==
    [id |-> id, priority |-> priority, required_capabilities |-> caps]

TaskGiven == Task(TaskId, TaskPriority, required_capabilities(TaskId))

\* Task.to_dict, the payload of a TASK_ASSIGN: the id under the key task
to_dict(task) ==
    [task |-> task.id, reason |-> "", priority |-> task.priority,
     required_capabilities |-> task.required_capabilities]

\* uuid4(): an id that no task has yet
uuid4(ids) == (CHOOSE m \in ids : \A x \in ids : x <= m) + 1

\* the Task _handle_task_assignment builds from the payload and passes to
\* execute_task: no id is given to the constructor, which makes a new one
task_from_payload(task_data) ==
    Task(uuid4({task_data.task}), task_data.priority, task_data.required_capabilities)

\* the capability test that passes on any one capability (C16 fails on it)
has_caps_any(reg, a, task) ==
    \E c \in required_capabilities(task) : c \in reg.val[a].capabilities

\* _handle_task_assignment's test: no requirement, or all of them held
has_caps(reg, a, task) ==
    \/ required_capabilities(task) = {}
    \/ \A c \in required_capabilities(task) : c \in reg.val[a].capabilities

\* the world an agent or engine method works on
World == [agents |-> agents, running |-> running, queues |-> queues,
          message_log |-> message_log]

\* stop without the status change (C13 fails on it)
agent_stop_keeps_status(w, subs, a) ==
    LET b == broadcast(w.queues, w.message_log, subs, Some(a),
                       Message("agent_deregister", None, None, "", NoPayload))
    IN  [agents |-> w.agents,
         running |-> [w.running EXCEPT ![a] = FALSE],
         queues |-> b.queues,
         message_log |-> b.message_log]

\* BaseAgent.stop
agent_stop(w, subs, a) ==
    LET b == broadcast(w.queues, w.message_log, subs, Some(a),
                       Message("agent_deregister", None, None, "", NoPayload))
    IN  [agents |-> SetStatus(w.agents, a, "offline"),
         running |-> [w.running EXCEPT ![a] = FALSE],
         queues |-> b.queues,
         message_log |-> b.message_log]

\* the while test of _run_loop: the next await, or the end of the task
LoopHead(is_running) == IF is_running THEN "wait" ELSE "none"

\* the loop after _handle_message or a timeout: the idle test of line 113,
\* then the hook or, nothing being changed during asyncio.sleep(0.01), the
\* while test
AfterHandle(status, is_running) ==
    IF status = "idle" THEN "autonomous_cycle" ELSE LoopHead(is_running)

\* the loop ending on a raising hook (C14 fails on it)
AfterRaise_exit(is_running) == "none"

\* the except clause of line 118, then the while test
AfterRaise(is_running) == LoopHead(is_running)

---------------------------------------------------------------------------
(* AgentEngine: lifecycle *)

\* stop that only cancels the tasks (C12 fails on it)
StopAll_skip(w, subs, keys, i) == w

\* the loop of AgentEngine.stop over self._agents.values()
RECURSIVE StopAll(_, _, _, _)
StopAll(w, subs, keys, i) ==
    IF i > Len(keys) THEN w
    ELSE StopAll(agent_stop(w, subs, keys[i]), subs, keys, i + 1)

\* ghost: the operation of a step
Op(op, agent) == [op |-> op, agent |-> agent]

\* ghost: a call of the bus, with the outcome b of its publish
BusOp(op, agent, b) ==
    [op |-> op, agent |-> agent, notified |-> b.notified, raised |-> b.raised]

\* AgentEngine.start
EngineStart ==
    /\ ~engine_running
    /\ bus_running' = TRUE
    /\ engine_running' = TRUE
    /\ kill_switch' = FALSE
    /\ last' = Op("start", 0)
    /\ UNCHANGED <<message_log, agents, queues, subscribers, running, pc, cur,
                   agent_tasks, assigned>>
    /\ UNCHANGED <<consensusVars, utilityVars, auxVars>>

\* start_agent setting the status itself (C32 fails on it)
StartAgent_sets_idle(a) ==
    /\ HasKey(agents, a)
    /\ pc[a] = "none"
    /\ Len(message_log) < MaxLog
    /\ pc' = [pc EXCEPT ![a] = "start"]
    /\ agent_tasks' = agent_tasks \cup {a}
    /\ held' = [held EXCEPT ![a] = a]
    /\ agents' = SetStatus(agents, a, "idle")
    /\ last' = Op("start_agent", a)
    /\ UNCHANGED <<message_log, queues, subscribers, bus_running,
                   engine_running, kill_switch, running, cur, assigned>>
    /\ UNCHANGED <<consensusVars, utilityVars, detached, knowledge>>

\* AgentEngine.start_agent of a registered agent, the new task in the free
\* slot l: create_task(agent.start()), and the handle replaces the one held
StartAgentIn(a, l) ==
    /\ HasKey(agents, a)
    /\ pc[l] = "none"
    /\ Len(message_log) < MaxLog
    /\ pc' = [pc EXCEPT ![l] = "start"]
    /\ agent_tasks' = agent_tasks \cup {a}
    /\ held' = [held EXCEPT ![a] = l]
    /\ last' = Op("start_agent", a)
    /\ UNCHANGED <<message_log, agents, queues, subscribers, bus_running,
                   engine_running, kill_switch, running, cur, assigned>>
    /\ UNCHANGED <<consensusVars, utilityVars, detached, knowledge>>

\* start_agent of an agent whose first slot is free
StartAgent(a) == StartAgentIn(a, a)

\* start_agent of an agent whose earlier task is still alive
StartAgentAgain(a) == pc[a] # "none" /\ StartAgentIn(a, a + NumAgents)

\* the slot start_agent puts a new task of agent a in
SlotFor(a) == IF pc[a] = "none" THEN a ELSE a + NumAgents

\* AgentEngine.start_all_agents: start_agent for every registered agent, in
\* one step (start_agent has no suspension point)
StartAllAgents ==
    /\ agents.keys # <<>>
    /\ \A i \in 1..Len(agents.keys) : pc[SlotFor(agents.keys[i])] = "none"
    /\ Len(message_log) < MaxLog
    /\ pc' = [l \in DOMAIN pc |->
                 IF HasKey(agents, AgentOf(l)) /\ l = SlotFor(AgentOf(l))
                 THEN "start" ELSE pc[l]]
    /\ agent_tasks' = agent_tasks \cup {agents.keys[i] : i \in 1..Len(agents.keys)}
    /\ held' = [a \in DOMAIN held |-> IF HasKey(agents, a) THEN SlotFor(a) ELSE held[a]]
    /\ last' = Op("start_all_agents", 0)
    /\ UNCHANGED <<message_log, agents, queues, subscribers, bus_running,
                   engine_running, kill_switch, running, cur, assigned>>
    /\ UNCHANGED <<consensusVars, utilityVars, detached, knowledge>>

\* BaseAgent.start up to the first await of _run_loop
AgentStart(l) ==
    LET a == AgentOf(l)
    IN  /\ pc[l] = "start"
        /\ LET b == broadcast(queues, message_log, subscribers, Some(a),
                              Message("agent_register", None, None, "", NoPayload))
           IN  /\ queues' = b.queues
               /\ message_log' = b.message_log
        /\ running' = [running EXCEPT ![a] = TRUE]
        /\ agents' = SetStatus(agents, a, "idle")
        /\ pc' = [pc EXCEPT ![l] = "wait"]
        /\ last' = Op("agent_start", a)
        /\ UNCHANGED <<subscribers, bus_running, engine_running, kill_switch, cur,
                       agent_tasks, assigned>>
        /\ UNCHANGED <<consensusVars, utilityVars, auxVars>>

\* _run_loop: wait_for(queue.get()) timed out on an empty mailbox
MailboxTimeout(l) ==
    LET a == AgentOf(l)
    IN  /\ pc[l] = "wait"
        /\ queues[a] = <<>>
        /\ pc' = [pc EXCEPT ![l] = AfterHandle(Status(agents, a), running[a])]
        /\ last' = Op("timeout", a)
        /\ UNCHANGED <<message_log, agents, queues, subscribers, bus_running,
                       engine_running, kill_switch, running, cur, agent_tasks, assigned>>
        /\ UNCHANGED <<consensusVars, utilityVars, auxVars>>

\* payload.get(key, {}) of a message's payload dict
payload_get(payload, key) ==
    IF key \in DOMAIN payload THEN payload[key] ELSE [k \in {} |-> 0]

\* dict.update: the keys of other are set to other's values, the rest kept
dict_update(d, other) ==
    [k \in (DOMAIN d) \cup (DOMAIN other) |-> IF k \in DOMAIN other THEN other[k] ELSE d[k]]

\* a mailbox that hands out its newest message first (C25 fails on it)
queue_get_newest(q) == [message |-> q[Len(q)], rest |-> SubSeq(q, 1, Len(q) - 1)]

\* asyncio.Queue.get on a non-empty mailbox: the oldest message, and the
\* mailbox without it
queue_get(q) == [message |-> Head(q), rest |-> Tail(q)]

\* _run_loop got a message: _handle_message up to its first await of a hook,
\* or to the end when it calls none
Dequeue(l) ==
    LET a == AgentOf(l)
    IN  /\ pc[l] = "wait"
        /\ queues[a] # <<>>
        /\ LET message == queue_get(queues[a]).message
               q == [queues EXCEPT ![a] = queue_get(@).rest]
               task == message.payload.task
           IN  /\ knowledge' = IF message.type = "state_update"
                               THEN [knowledge EXCEPT ![a] =
                                        dict_update(@, payload_get(message.payload, "state"))]
                               ELSE knowledge
               /\ IF message.type = "emergency_halt"
                  THEN LET w == agent_stop([World EXCEPT !.queues = q], subscribers, a)
                       IN  /\ agents' = w.agents
                           /\ running' = w.running
                           /\ queues' = w.queues
                           /\ message_log' = w.message_log
                           /\ pc' = [pc EXCEPT ![l] = AfterHandle(Status(w.agents, a), w.running[a])]
                           /\ cur' = cur
                           /\ last' = Op("halt", a)
                  ELSE IF message.type = "task_assign" /\ ~has_caps(agents, a, task)
                  THEN LET b == send_direct(q, message_log, subscribers, Some(a),
                                            message.sender_id,
                                            Message("reject", None, None, "",
                                                    Payload(task, "Missing required capabilities")))
                       IN  /\ queues' = b.queues
                           /\ message_log' = b.message_log
                           /\ pc' = [pc EXCEPT ![l] = AfterHandle(Status(agents, a), running[a])]
                           /\ last' = Op("reject", a)
                           /\ UNCHANGED <<agents, running, cur>>
                  ELSE IF message.type = "task_assign"
                  THEN /\ agents' = SetStatus(agents, a, "busy")
                       /\ pc' = [pc EXCEPT ![l] = "execute_task"]
                       /\ cur' = [cur EXCEPT ![l] = Some(message)]
                       /\ queues' = q
                       /\ last' = Op("accept", a)
                       /\ UNCHANGED <<message_log, running>>
                  ELSE IF message.type = "state_update"
                  THEN /\ pc' = [pc EXCEPT ![l] = AfterHandle(Status(agents, a), running[a])]
                       /\ queues' = q
                       /\ last' = Op("state_update", a)
                       /\ UNCHANGED <<message_log, agents, running, cur>>
                  ELSE /\ pc' = [pc EXCEPT ![l] = IF message.type = "proposal"
                                                  THEN "evaluate_proposal" ELSE "on_message"]
                       /\ cur' = [cur EXCEPT ![l] = Some(message)]
                       /\ queues' = q
                       /\ last' = Op("dispatch", a)
                       /\ UNCHANGED <<message_log, agents, running>>
        /\ UNCHANGED <<subscribers, bus_running, engine_running, kill_switch,
                       agent_tasks, assigned>>
        /\ UNCHANGED <<consensusVars, utilityVars, detached, held>>

\* evaluate_proposal, on_message or _autonomous_cycle returned: the rest of
\* the handler and of the loop's iteration up to its next await
HookReturn(l) ==
    LET a == AgentOf(l)
    IN  /\ pc[l] \in HookPcs \ {"execute_task"}
        /\ IF pc[l] = "evaluate_proposal"
           THEN LET b == send_direct(queues, message_log, subscribers, Some(a),
                                     cur[l][1].sender_id,
                                     Message("vote", None, None, "", NoPayload))
                IN  /\ queues' = b.queues
                    /\ message_log' = b.message_log
           ELSE UNCHANGED <<queues, message_log>>
        /\ pc' = [pc EXCEPT ![l] = IF pc[l] = "autonomous_cycle" THEN LoopHead(running[a])
                                    ELSE AfterHandle(Status(agents, a), running[a])]
        /\ cur' = [cur EXCEPT ![l] = None]
        /\ last' = Op("hook_return", a)
        /\ UNCHANGED <<agents, subscribers, bus_running, engine_running, kill_switch,
                       running, agent_tasks, assigned>>
        /\ UNCHANGED <<consensusVars, utilityVars, auxVars>>

\* an execute_task that sets the status to IDLE before it returns, as the
\* demo agents' does
ExecuteTaskReturnIdle(l) ==
    LET a == AgentOf(l)
    IN  /\ pc[l] = "execute_task"
        /\ agents' = SetStatus(agents, a, "idle")
        /\ pc' = [pc EXCEPT ![l] = AfterHandle("idle", running[a])]
        /\ cur' = [cur EXCEPT ![l] = None]
        /\ last' = Op("task_done", a)
        /\ UNCHANGED <<message_log, queues, subscribers, bus_running, engine_running,
                       kill_switch, running, agent_tasks, assigned>>
        /\ UNCHANGED <<consensusVars, utilityVars, auxVars>>

\* a hook raised an Exception: caught by the loop, which goes on
HookRaise(l) ==
    LET a == AgentOf(l)
    IN  /\ pc[l] \in HookPcs
        /\ pc' = [pc EXCEPT ![l] = AfterRaise(running[a])]
        /\ cur' = [cur EXCEPT ![l] = None]
        /\ last' = Op("hook_raise", a)
        /\ UNCHANGED <<message_log, agents, queues, subscribers, bus_running,
                       engine_running, kill_switch, running, agent_tasks, assigned>>
        /\ UNCHANGED <<consensusVars, utilityVars, auxVars>>

\* _agent_tasks holds the handle of loop task l
Held(l) == AgentOf(l) \in agent_tasks /\ held[AgentOf(l)] = l

\* the rest of AgentEngine.stop from world w0: every registered agent is
\* stopped, every task is cancelled (a cancelled task leaves its await and
\* ends), the bus is stopped
StopEffects(w0) ==
    LET w == StopAll(w0, subscribers, w0.agents.keys, 1)
    IN  /\ agents' = w.agents
        /\ running' = w.running
        /\ queues' = w.queues
        /\ message_log' = w.message_log
        /\ pc' = [l \in DOMAIN pc |-> IF Held(l) THEN "none" ELSE pc[l]]
        /\ cur' = [l \in DOMAIN cur |-> IF Held(l) THEN None ELSE cur[l]]
        /\ engine_running' = FALSE
        /\ bus_running' = FALSE

\* AgentEngine.stop
EngineStop ==
    /\ Len(message_log) < MaxLog
    /\ StopEffects(World)
    /\ last' = Op("stop", 0)
    /\ UNCHANGED <<subscribers, kill_switch, agent_tasks, assigned>>
    /\ UNCHANGED <<consensusVars, utilityVars, auxVars>>

\* ghost: the agents inside execute_task
InExecuteTask == {a \in 1..NumAgents : pc[a] = "execute_task"}

\* AgentEngine.emergency_halt
EmergencyHalt ==
    /\ Len(message_log) < MaxLog
    /\ kill_switch' = TRUE
    /\ LET b == broadcast(queues, message_log, subscribers, None,
                          Message("emergency_halt", None, None, "", NoPayload))
       IN  StopEffects([World EXCEPT !.queues = b.queues,
                                     !.message_log = b.message_log])
    /\ last' = Op("emergency_halt",
                   IF InExecuteTask = {} THEN 0 ELSE CHOOSE a \in InExecuteTask : TRUE)
    /\ UNCHANGED <<subscribers, agent_tasks, assigned>>
    /\ UNCHANGED <<consensusVars, utilityVars, auxVars>>

\* AgentEngine.deregister_agent of a registered agent
DeregisterAgent(a) ==
    /\ HasKey(agents, a)
    /\ agents' = DictDel(agents, a)
    /\ pc' = [pc EXCEPT ![held[a]] = IF a \in agent_tasks THEN "none" ELSE @]
    /\ cur' = [cur EXCEPT ![held[a]] = IF a \in agent_tasks THEN None ELSE @]
    /\ agent_tasks' = agent_tasks \ {a}
    /\ queues' = bus_deregister_agent(queues, a)
    /\ detached' = [x \in (DOMAIN detached) \cup {a} |->
                        IF x = a THEN agents.val[a] ELSE detached[x]]
    /\ last' = Op("deregister", a)
    /\ UNCHANGED <<message_log, subscribers, bus_running, engine_running,
                   kill_switch, running, assigned, knowledge, held>>
    /\ UNCHANGED <<consensusVars, utilityVars>>

\* MessageBus.register_agent: a new mailbox unless the agent has one
bus_register_agent(q, agent_id) ==
    IF agent_id \in DOMAIN q THEN q
    ELSE [a \in (DOMAIN q) \cup {agent_id} |-> IF a = agent_id THEN <<>> ELSE q[a]]

\* the entity of agent object a, in the registry or outside it
Entity(a) == IF HasKey(agents, a) THEN agents.val[a] ELSE detached[a]

\* AgentEngine.register_agent(agent): agent.connect gets the agent its
\* mailbox and has the framework construct the UtilityFunction of the
\* agent's weights (the defaults, no agent being built with others), then
\* the agent is entered in the registry
RegisterAgent(a) ==
    /\ agents' = DictSet(agents, a, Entity(a))
    /\ queues' = bus_register_agent(queues, a)
    /\ detached' = [x \in (DOMAIN detached) \ {a} |-> detached[x]]
    /\ utility' = [built |-> TRUE, given |-> Some(DefaultWeights),
                   w |-> UtilityFunction(Some(DefaultWeights)).w,
                   den |-> UtilityFunction(Some(DefaultWeights)).den]
    /\ last' = Op("register", a)
    /\ UNCHANGED <<message_log, subscribers, bus_running, engine_running,
                   kill_switch, running, pc, cur, agent_tasks, assigned,
                   knowledge, held>>
    /\ UNCHANGED consensusVars

AgentStatuses == {"idle", "busy", "offline"}

\* AgentEngine.get_system_status
get_system_status(reg, q, log, is_running, kill) ==
    [running |-> is_running,
     kill_switch |-> kill,
     total_agents |-> Len(reg.keys),
     agents_by_role |-> [r \in AgentRoles |-> Len(get_agents_by_role(reg, r))],
     agents_by_status |->
         [s \in AgentStatuses |->
             Cardinality({i \in 1..Len(reg.keys) : Status(reg, reg.keys[i]) = s})],
     message_bus_agents |-> Cardinality(DOMAIN q),
     decisions_made |-> Len(log)]

\* a call of get_system_status: it reads the state and changes none of it
GetSystemStatus ==
    /\ last' = Op("get_system_status",
                   get_system_status(agents, queues, decision_log,
                                     engine_running, kill_switch).total_agents)
    /\ UNCHANGED <<message_log, agents, queues, subscribers, bus_running,
                   engine_running, kill_switch, running, pc, cur, agent_tasks,
                   assigned>>
    /\ UNCHANGED <<consensusVars, utilityVars, auxVars>>

\* max that keeps the last of the greatest (C27 fails on it)
RECURSIVE FirstMaxExpertise_last(_, _, _, _)
FirstMaxExpertise_last(reg, candidates, i, best) ==
    IF i > Len(candidates) THEN best
    ELSE FirstMaxExpertise_last(reg, candidates, i + 1,
             IF reg.val[candidates[i]].expertise_score >= reg.val[best].expertise_score
             THEN candidates[i] ELSE best)

\* max(candidates, key=expertise_score): the first of the greatest
RECURSIVE FirstMaxExpertise(_, _, _, _)
FirstMaxExpertise(reg, candidates, i, best) ==
    IF i > Len(candidates) THEN best
    ELSE FirstMaxExpertise(reg, candidates, i + 1,
             IF reg.val[candidates[i]].expertise_score > reg.val[best].expertise_score
             THEN candidates[i] ELSE best)

\* assign_task taking a named target without looking it up (C26 fails on it)
assign_target_unchecked(reg, task, agent_id) ==
    IF agent_id # None THEN agent_id
    ELSE LET Idle(a) == Status(reg, a) = "idle"
             Able(a) == has_caps(reg, a, task)
             candidates == SelectSeq(SelectSeq(reg.keys, Idle), Able)
         IN  IF candidates = <<>> THEN None
             ELSE Some(FirstMaxExpertise(reg, candidates, 2, candidates[1]))

\* the agent assign_task picks: None when it returns False
assign_target(reg, task, agent_id) ==
    IF agent_id # None
    THEN IF HasKey(reg, agent_id[1]) THEN agent_id ELSE None
    ELSE LET Idle(a) == Status(reg, a) = "idle"
             Able(a) == has_caps(reg, a, task)
             candidates == SelectSeq(SelectSeq(reg.keys, Idle), Able)
         IN  IF candidates = <<>> THEN None
             ELSE Some(FirstMaxExpertise(reg, candidates, 2, candidates[1]))

\* assign_task that does not record the agent in the task (C28 fails on it)
AssignTask_unrecorded(agent_id) ==
    /\ Len(message_log) < MaxLog
    /\ LET agent == assign_target(agents, TaskId, agent_id)
       IN  IF agent = None
           THEN /\ last' = Op("assign_false", 0)
                /\ UNCHANGED <<message_log, queues, assigned>>
           ELSE LET b == send_direct(queues, message_log, subscribers, None, agent,
                                     Message("task_assign", None, None, "",
                                             to_dict(TaskGiven)))
                IN  /\ queues' = b.queues
                    /\ message_log' = b.message_log
                    /\ assigned' = assigned
                    /\ last' = Op("assign_true", agent[1])
    /\ UNCHANGED <<agents, subscribers, bus_running, engine_running, kill_switch,
                   running, pc, cur, agent_tasks>>
    /\ UNCHANGED <<consensusVars, utilityVars, auxVars>>

\* AgentEngine.assign_task(task, agent_id)
AssignTask(agent_id) ==
    /\ Len(message_log) < MaxLog
    /\ LET agent == assign_target(agents, TaskId, agent_id)
       IN  IF agent = None
           THEN /\ last' = Op("assign_false", 0)
                /\ UNCHANGED <<message_log, queues, assigned>>
           ELSE LET b == send_direct(queues, message_log, subscribers, None, agent,
                                     Message("task_assign", None, None, "",
                                             to_dict(TaskGiven)))
                IN  /\ queues' = b.queues
                    /\ message_log' = b.message_log
                    /\ assigned' = Append(assigned, agent[1])
                    /\ last' = Op("assign_true", agent[1])
    /\ UNCHANGED <<agents, subscribers, bus_running, engine_running, kill_switch,
                   running, pc, cur, agent_tasks>>
    /\ UNCHANGED <<consensusVars, utilityVars, auxVars>>

\* MessageBus.send_direct called from outside the agents' loops
SendDirect(sender_id, recipient, type, topic) ==
    /\ Len(message_log) < MaxLog
    /\ LET b == send_direct(queues, message_log, subscribers, sender_id,
                            Some(recipient), Message(type, None, None, topic, NoPayload))
       IN  /\ queues' = b.queues
           /\ message_log' = b.message_log
           /\ last' = BusOp("send_direct", recipient, b)
    /\ UNCHANGED <<agents, subscribers, bus_running, engine_running, kill_switch,
                   running, pc, cur, agent_tasks, assigned>>
    /\ UNCHANGED <<consensusVars, utilityVars, auxVars>>

\* MessageBus.broadcast called from outside the agents' loops
Broadcast(sender_id, type, topic) ==
    /\ Len(message_log) < MaxLog
    /\ LET b == broadcast(queues, message_log, subscribers, sender_id,
                          Message(type, None, None, topic, NoPayload))
       IN  /\ queues' = b.queues
           /\ message_log' = b.message_log
           /\ last' = BusOp("broadcast", 0, b)
    /\ UNCHANGED <<agents, subscribers, bus_running, engine_running, kill_switch,
                   running, pc, cur, agent_tasks, assigned>>
    /\ UNCHANGED <<consensusVars, utilityVars, auxVars>>

\* MessageBus.subscribe(topic, handler)
Subscribe(handler) ==
    /\ Len(subscribers) < MaxSubs
    /\ subscribers' = Append(subscribers, handler)
    /\ last' = Op("subscribe", 0)
    /\ UNCHANGED <<message_log, agents, queues, bus_running, engine_running,
                   kill_switch, running, pc, cur, agent_tasks, assigned>>
    /\ UNCHANGED <<consensusVars, utilityVars, auxVars>>

\* who sends from outside, and the types sent
Senders == {None, Some(1)}
DirectTypes == {"proposal", "broadcast"}
FanoutTypes == {"state_update", "vote"}

\* the engine and the agents' loops, with the messages the handlers
\* dispatch on sent from outside
NextAgents ==
    \/ EngineStart
    \/ EngineStop
    \/ EmergencyHalt
    \/ \E a \in 1..NumAgents : StartAgent(a)
    \/ \E a \in 1..NumAgents : AgentStart(a)
    \/ \E a \in 1..NumAgents : MailboxTimeout(a)
    \/ \E a \in 1..NumAgents : Dequeue(a)
    \/ \E a \in 1..NumAgents : HookReturn(a)
    \/ \E a \in 1..NumAgents : ExecuteTaskReturnIdle(a)
    \/ \E a \in 1..NumAgents : HookRaise(a)
    \/ \E a \in 1..NumAgents : AssignTask(Some(a))
    \/ AssignTask(None)
    \/ \E a \in 1..NumAgents, ty \in DirectTypes : SendDirect(None, a, ty, "")
    \/ Broadcast(None, "emergency_halt", "")

SpecAgents == Init /\ [][NextAgents]_vars

\* registries of NumAgents agents in any registration order, each agent
\* idle or busy, with or without the capability "ops", of expertise 1 or 2
AgentVariants ==
    [status : {"idle", "busy"},
     capabilities : {{"finance"}, {"finance", "ops"}},
     expertise_score : {1, 2}]

Registries ==
    {[keys |-> order,
      val |-> [a \in 1..NumAgents |->
                  [Agent(a) EXCEPT !.status = f[a].status,
                                   !.capabilities = f[a].capabilities,
                                   !.expertise_score = f[a].expertise_score]]] :
        order \in {s \in [1..NumAgents -> 1..NumAgents] :
                      \A i, j \in 1..NumAgents : s[i] = s[j] => i = j},
        f \in [1..NumAgents -> AgentVariants]}

\* an id no agent is registered under, and the targets assign_task is given
UnknownAgent == NumAgents + 1
AssignTargets == {None} \cup {Some(a) : a \in 1..UnknownAgent}

InitAssign == \E reg \in Registries : InitWith(reg)

\* assign_task on any such registry
NextAssign == \E agent_id \in AssignTargets : AssignTask(agent_id)

SpecAssign == InitAssign /\ [][NextAssign]_vars

\* the bus and its callers, no topic in use
NextBus ==
    \/ \E a \in 1..NumAgents : DeregisterAgent(a)
    \/ \E s \in Senders, a \in 1..NumAgents : SendDirect(s, a, "broadcast", "")
    \/ \E s \in Senders, ty \in FanoutTypes : Broadcast(s, ty, "")

SpecBus == Init /\ [][NextBus]_vars

\* the bus with handlers subscribed to the topic and messages published
\* under it
NextTopics ==
    \/ \E h \in Handlers : Subscribe(h)
    \/ \E a \in 1..NumAgents : DeregisterAgent(a)
    \/ \E a \in 1..NumAgents : SendDirect(None, a, "broadcast", "t")
    \/ \E s \in Senders, ty \in FanoutTypes : Broadcast(s, ty, "t")

SpecTopics == Init /\ [][NextTopics]_vars

\* the payloads of the STATE_UPDATE messages sent: the new state under the
\* key "state", or the new state as the payload itself
StatePayloads ==
    {[state |-> [x |-> 1]], [state |-> [x |-> 2, y |-> 1]], [x |-> 1]}

\* MessageBus.broadcast of a STATE_UPDATE, called from outside the agents
BroadcastStateUpdate(payload) ==
    /\ Len(message_log) < MaxLog
    /\ LET b == broadcast(queues, message_log, subscribers, None,
                          Message("state_update", None, None, "", payload))
       IN  /\ queues' = b.queues
           /\ message_log' = b.message_log
           /\ last' = BusOp("broadcast", 0, b)
    /\ UNCHANGED <<agents, subscribers, bus_running, engine_running, kill_switch,
                   running, pc, cur, agent_tasks, assigned>>
    /\ UNCHANGED <<consensusVars, utilityVars, auxVars>>

\* started agents receiving STATE_UPDATE messages
NextKnowledge ==
    \/ \E a \in 1..NumAgents : StartAgent(a)
    \/ \E a \in 1..NumAgents : AgentStart(a)
    \/ \E a \in 1..NumAgents : MailboxTimeout(a)
    \/ \E a \in 1..NumAgents : Dequeue(a)
    \/ \E a \in 1..NumAgents : HookReturn(a)
    \/ \E payload \in StatePayloads : BroadcastStateUpdate(payload)

SpecKnowledge == Init /\ [][NextKnowledge]_vars

\* the engine started, halted and asked to assign tasks, with agents
\* deregistered meanwhile
NextHalt ==
    \/ EngineStart
    \/ EmergencyHalt
    \/ \E a \in 1..NumAgents : DeregisterAgent(a)
    \/ \E agent_id \in AssignTargets : AssignTask(agent_id)

SpecHalt == Init /\ [][NextHalt]_vars

\* agents registered and deregistered in any order, tasks assigned to them
\* meanwhile, and the status snapshot read
NextRegistry ==
    \/ GetSystemStatus
    \/ \E a \in 1..NumAgents : RegisterAgent(a)
    \/ \E a \in 1..NumAgents : DeregisterAgent(a)
    \/ \E agent_id \in AssignTargets : AssignTask(agent_id)

SpecRegistry == Init /\ [][NextRegistry]_vars

\* the live loop tasks of agent a
LiveLoops(a) == {l \in Loops : AgentOf(l) = a /\ pc[l] # "none"}

\* agents started, started again, deregistered and stopped, and their loop
\* tasks; an agent is deregistered while the engine holds every live task
\* of it
NextLoops ==
    \/ EngineStop
    \/ StartAllAgents
    \/ \E a \in 1..NumAgents : StartAgent(a)
    \/ \E a \in 1..NumAgents : StartAgentAgain(a)
    \/ \E a \in 1..NumAgents : LiveLoops(a) \subseteq {held[a]} /\ DeregisterAgent(a)
    \/ \E a \in 1..NumAgents : RegisterAgent(a)
    \/ \E l \in Loops : AgentStart(l)
    \/ \E l \in Loops : MailboxTimeout(l)
    \/ \E l \in Loops : HookReturn(l)

SpecLoops == Init /\ [][NextLoops]_vars

\* the engine's whole API with the loop of one worker: agents are registered
\* and deregistered, the worker is started and given tasks, the leader is
\* asked to decide, the engine is stopped and halted
NextLifecycle ==
    \/ EngineStart
    \/ EngineStop
    \/ EmergencyHalt
    \/ GetSystemStatus
    \/ \E a \in 1..NumAgents : RegisterAgent(a)
    \/ \E a \in 1..NumAgents : DeregisterAgent(a)
    \/ StartAgent(2)
    \/ AgentStart(2)
    \/ MailboxTimeout(2)
    \/ Dequeue(2)
    \/ HookReturn(2)
    \/ ExecuteTaskReturnIdle(2)
    \/ AssignTask(Some(2))
    \/ RunCollaborativeDecisionNoVoters(Some("observer"), None)
    \/ RunCollaborativeDecision(<<>>, Some("leader"), None, None)
    \/ CollectTimeout(1)
    \/ RoundClose

SpecLifecycle == Init /\ [][NextLifecycle]_vars

---------------------------------------------------------------------------
(* UtilityFunction constructed from any weights *)

\* the weights a UtilityFunction is constructed from
WeightInputs ==
    {None} \cup {Some(<<a, b, c>>) : a, b, c \in (-1)..MaxUtilWeight}

\* UtilityFunction(weights)
Construct(given) ==
    /\ utility' = [built |-> TRUE, given |-> given,
                   w |-> UtilityFunction(given).w, den |-> UtilityFunction(given).den]
    /\ UNCHANGED <<consensusVars, agentVars, auxVars, message_log, agents>>

NextUtility == \E given \in WeightInputs : Construct(given)

SpecUtility == Init /\ [][NextUtility]_vars

\* the ConsensusManager given any threshold, without voting rounds
NextCreate ==
    \/ \E o \in OptionLists, t \in ThresholdInputsAll : CreateProposal(1, o, t)
    \/ \E p \in ProposalIds, v \in VoterIds, a \in VoteInputs, w \in Weights :
           CastVote(p, v, a[1], a[2], w)
    \/ \E p \in ProposalIds : CloseVoting(p)

SpecCreate == Init /\ [][NextCreate]_vars


---------------------------------------------------------------------------
(* Definitions the properties are stated with.  The weights are summed here
   over the set of voters, not in the order of the votes dict. *)

\* the voters holding a vote in session sess
VotersOf(sess) == {sess.votes.keys[i] : i \in 1..Len(sess.votes.keys)}

RECURSIVE SumOf(_, _)
SumOf(S, f) ==
    IF S = {} THEN 0
    ELSE LET x == CHOOSE y \in S : TRUE IN f[x] + SumOf(S \ {x}, f)

\* votes: a function voter -> Vote.  The weight behind one vote type ...
WeightFor(votes, vote_type) ==
    SumOf({v \in DOMAIN votes : votes[v].vote = vote_type},
          [v \in DOMAIN votes |-> votes[v].weight])

\* ... and the yes-weight behind one option index
YesWeightOn(votes, opt) ==
    SumOf({v \in DOMAIN votes : votes[v].vote = "yes" /\ votes[v].selected_option = opt},
          [v \in DOMAIN votes |-> votes[v].weight])

VotesFn(sess) == [v \in VotersOf(sess) |-> sess.votes.val[v]]

\* tally t is the tally of the votes function, at threshold th tenths
TallyMatches(t, votes, th) ==
    LET y == WeightFor(votes, "yes")
        n == WeightFor(votes, "no")
        a == WeightFor(votes, "abstain")
    IN  /\ t.yes_weight = y /\ t.no_weight = n /\ t.abstain_weight = a
        /\ t.total_weight = y + n + a
        /\ t.vote_count = Cardinality(DOMAIN votes)
        /\ IF y + n + a > 0 THEN RatEq(t.yes_ratio, <<y, y + n + a>>)
           ELSE RatEq(t.yes_ratio, <<0, 1>>)
        /\ t.would_pass = (IF y + n + a > 0 THEN y * ThresholdDen >= th * (y + n + a)
                           ELSE 0 >= th)
        /\ \A o \in OptIdx : DictGet(t.option_votes, o, 0) = YesWeightOn(votes, o)

DecisionsIn(log, p) == Cardinality({i \in 1..Len(log) : log[i].proposal_id = p})

DecisionOf(log, p) == log[CHOOSE i \in 1..Len(log) : log[i].proposal_id = p]

AllVoters == VoterIds \cup (1..NumAgents)

\* run_collaborative_decision has returned its result for proposal p
RcdReturned(p) ==
    /\ DOMAIN rcd_result # {}
    /\ rcd_result.kind = "result"
    /\ rcd_result.proposal_id = p

---------------------------------------------------------------------------
\* C1: every run_voting_round on an open proposal ends, whatever the voters'
\* callbacks do (answer, time out, raise), with the session Closed and
\* exactly one Decision for the proposal in the decision log.
\* Stated on the step that ends the call (it returns or raises).
C1_RoundEndsClosedWithOneDecision ==
    [][(/\ round.status = "collecting"
        /\ round'.status \in {"returned", "raised"}
        /\ ~sessions[round.proposal_id].closed)
       => (/\ sessions'[round.proposal_id].closed
           /\ DecisionsIn(decision_log', round.proposal_id) = 1)]_vars

\* C2: in run_voting_round on a session that is open, a voter whose callback
\* times out is recorded with an ABSTAIN vote of its declared weight and
\* rationale "timeout", nothing is raised to the caller, and a voter that
\* answers is recorded with the vote it answered and its declared weight; in
\* both cases the votes of the other voters stay as they were.
C2_Recorded(p, v, vote) ==
    /\ HasKey(sessions'[p].votes, v)
    /\ sessions'[p].votes.val[v] = vote
    /\ \A u \in VotersOf(sessions[p]) \ {v} :
           /\ HasKey(sessions'[p].votes, u)
           /\ sessions'[p].votes.val[u] = sessions[p].votes.val[u]
    /\ VotersOf(sessions'[p]) = VotersOf(sessions[p]) \cup {v}
    /\ round'.status = round.status
    /\ ret' = ret
    /\ rcd_result' = rcd_result
    /\ decision_log' = decision_log

C2_TimeoutIsAbstain ==
    [][\A v \in AllVoters :
          (/\ v \in round.pending
           /\ v \notin round'.pending
           /\ ~sessions[round.proposal_id].closed)
          => LET p == round.proposal_id
                 w == DeclaredWeight(round.voters, v)
             IN  /\ CollectTimeout(v)
                     => C2_Recorded(p, v, Vote(p, v, "abstain", 0, w, "timeout"))
                 /\ \A a \in VoteInputs :
                        CollectAnswer(v, a[1], a[2])
                            => C2_Recorded(p, v, Vote(p, v, a[1], a[2], w, "ok"))]_vars

\* a round has returned a Decision that holds a timed-out voter's abstain
\* next to the yes vote another voter answered
C2_Witness ==
    /\ round.status = "returned"
    /\ ret = "Decision"
    /\ \E p \in DOMAIN sessions, v, u \in VoterIds :
           /\ HasKey(sessions[p].votes, v) /\ HasKey(sessions[p].votes, u)
           /\ sessions[p].votes.val[v] = Vote(p, v, "abstain", 0, MaxWeight, "timeout")
           /\ sessions[p].votes.val[u].vote = "yes"
           /\ sessions[p].votes.val[u].rationale = "ok"

\* C3: closing one proposal any number of times appends exactly one Decision:
\* the first close_voting on an open session closes it and appends one
\* Decision for it, and a close_voting on a closed session returns nothing
\* and leaves sessions and decision log as they were.
C3_CloseAppendsExactlyOne ==
    [][\A p \in DOMAIN sessions :
          CloseVoting(p)
          => IF ~sessions[p].closed
             THEN /\ sessions'[p].closed
                  /\ ret' = "Decision"
                  /\ Len(decision_log') = Len(decision_log) + 1
                  /\ DecisionsIn(decision_log', p) = 1
             ELSE /\ ret' = "NoDecision"
                  /\ sessions' = sessions
                  /\ decision_log' = decision_log]_vars

\* C4: a session is open from create_proposal until its first close and
\* closed for ever after: a new session starts open without a result, only a
\* close (close_voting, or the close ending run_voting_round) closes it, and
\* no step changes a closed session's flag, votes, result or tally.
C4_ClosedIsPermanent ==
    [][\A p \in DOMAIN sessions' :
          IF p \in DOMAIN sessions
          THEN /\ sessions[p].closed
                    => /\ sessions'[p] = sessions[p]
                       /\ get_vote_tally(sessions', p) = get_vote_tally(sessions, p)
               /\ (~sessions[p].closed /\ sessions'[p].closed)
                    => (CloseVoting(p) \/ RoundClose)
          ELSE /\ ~sessions'[p].closed
               /\ sessions'[p].result = None
               /\ sessions'[p].votes = EmptyDict]_vars

\* a cast_vote has just been turned away by a closed, accepted session that
\* holds votes, after a round on it
C4_Witness ==
    /\ ret = "NoVote"
    /\ round.status = "returned"
    /\ \E p \in DOMAIN sessions :
           /\ sessions[p].closed
           /\ sessions[p].result = Some("accepted")
           /\ Len(sessions[p].votes.keys) = Cardinality(VoterIds)

\* C5: cast_vote on an unknown proposal id or on a closed session raises
\* nothing, returns no vote, and leaves all sessions and the decision log
\* unchanged.
C5_CastVoteNoOp ==
    /\ [](\A p \in TargetIds :
             (~Known(sessions, p) \/ sessions[p].closed)
             => \A v \in VoterIds, a \in VoteInputs, w \in Weights :
                    cast_vote(sessions, p, v, a[1], a[2], w, "ok")
                        = [sessions |-> sessions, ret |-> "NoVote"])
    /\ [][(ret' = "NoVote" /\ round' = round)
          => (sessions' = sessions /\ decision_log' = decision_log)]_vars

\* a cast_vote has returned nothing while a closed session with a rejected
\* result and one Decision exists
C5_Witness ==
    /\ ret = "NoVote"
    /\ \E p \in DOMAIN sessions :
           /\ sessions[p].closed
           /\ sessions[p].result = Some("rejected")
           /\ DecisionsIn(decision_log, p) = 1

\* C6: in an open session a second cast_vote by a voter replaces its first:
\* afterwards the voter has one vote, and the tally is the tally of the other
\* voters' votes plus the second vote alone (weight counted once, under the
\* second vote's tag and option).
C6_SecondVoteReplaces ==
    [](\A p \in DOMAIN sessions, v \in VoterIds :
          Replaces(sessions, p, v)
          => LET old == VotesFn(sessions[p])
                 count == Cardinality(DOMAIN old)
             IN  \A a \in VoteInputs, w \in Weights :
                    LET r == cast_vote(sessions, p, v, a[1], a[2], w, "ok")
                        expected == [old EXCEPT ![v] = Vote(p, v, a[1], a[2], w, "ok")]
                    IN  /\ r.ret = "Vote"
                        /\ VotesFn(r.sessions[p]) = expected
                        /\ Len(r.sessions[p].votes.keys) = count
                        /\ TallyMatches(get_vote_tally(r.sessions, p), expected,
                                        sessions[p].proposal.threshold))

\* a voter has just replaced its vote in an open session where the other
\* voter holds a vote too
C6_Witness ==
    /\ overwrote
    /\ ret = "Vote"
    /\ \E p \in DOMAIN sessions :
           /\ ~sessions[p].closed
           /\ Len(sessions[p].votes.keys) = Cardinality(VoterIds)
           /\ get_vote_tally(sessions, p).total_weight = 2 * MaxWeight

\* C7: for the votes of any session, get_vote_tally reports the weights per
\* vote type, yes_ratio = yes / (yes + no + abstain) when the total is
\* positive and 0 otherwise, and would_pass exactly when yes_ratio >= the
\* proposal's threshold.
C7_TallyRatio ==
    \A p \in DOMAIN sessions :
        TallyMatches(get_vote_tally(sessions, p), VotesFn(sessions[p]),
                     sessions[p].proposal.threshold)

\* yes-weight 2 against no-weight 1 passes at threshold 0.5
C7_Witness ==
    \E p \in DOMAIN sessions :
        LET t == get_vote_tally(sessions, p)
        IN  /\ t.yes_weight = 2 /\ t.no_weight = 1 /\ t.abstain_weight = 0
            /\ t.yes_ratio = <<2, 3>>
            /\ t.threshold = default_threshold
            /\ t.would_pass

\* C9: the Decision appended by a close matches the tally read in the state
\* just before it: the consensus score is that tally's yes_ratio, the
\* voter-to-vote map holds exactly the votes counted, and the session result
\* is accepted exactly when that tally's would_pass is true.
C9_DecisionMatchesTally ==
    [][Len(decision_log') > Len(decision_log)
       => LET d == decision_log'[Len(decision_log')]
              p == d.proposal_id
              t == get_vote_tally(sessions, p)
              old == VotesFn(sessions[p])
          IN  /\ Len(decision_log') = Len(decision_log) + 1
              /\ ~sessions[p].closed
              /\ d.consensus_score = t.yes_ratio
              /\ DOMAIN d.votes = DOMAIN old
              /\ \A v \in DOMAIN old : d.votes[v] = old[v].vote
              /\ Cardinality(DOMAIN d.votes) = t.vote_count
              /\ sessions'[p].result \in {Some("accepted"), Some("rejected")}
              /\ (sessions'[p].result = Some("accepted")) <=> t.would_pass]_vars

\* a Decision at exactly the threshold: score 1/2 at threshold 0.5, accepted
C9_Witness ==
    /\ ret = "Decision"
    /\ \E p \in DOMAIN sessions :
           /\ sessions[p].closed
           /\ sessions[p].result = Some("accepted")
           /\ sessions[p].proposal.threshold = default_threshold
           /\ DecisionsIn(decision_log, p) = 1
           /\ DecisionOf(decision_log, p).consensus_score = <<1, 2>>

\* C8, as the specification states it: the winning option of a passing
\* proposal, in run_collaborative_decision's result and in the Decision, is
\* the option index with the greatest accumulated yes-weight, the lowest such
\* index when several share it, whatever the order of the votes.  Stated for
\* sessions whose yes votes all name an index of the option list.
YesIdx(votes) ==
    {votes[v].selected_option : v \in {u \in DOMAIN votes : votes[u].vote = "yes"}}

MaxYesIdx(votes) ==
    {o \in YesIdx(votes) :
        \A q \in YesIdx(votes) : YesWeightOn(votes, o) >= YesWeightOn(votes, q)}

LowestMax(votes) ==
    CHOOSE o \in MaxYesIdx(votes) : \A q \in MaxYesIdx(votes) : o <= q

\* the place, in the order of the session's votes, of the first yes for o
FirstYesPos(sess, o) ==
    CHOOSE i \in 1..Len(sess.votes.keys) :
        /\ sess.votes.val[sess.votes.keys[i]].vote = "yes"
        /\ sess.votes.val[sess.votes.keys[i]].selected_option = o
        /\ \A j \in 1..(i - 1) :
               ~(/\ sess.votes.val[sess.votes.keys[j]].vote = "yes"
                 /\ sess.votes.val[sess.votes.keys[j]].selected_option = o)

EarliestMax(sess) ==
    CHOOSE o \in MaxYesIdx(VotesFn(sess)) :
        \A q \in MaxYesIdx(VotesFn(sess)) : FirstYesPos(sess, o) <= FirstYesPos(sess, q)

\* the option a Decision selects for index idx: the option at idx, counted
\* from the end when idx is negative, none when idx is past the end
OptionAt(options, idx) ==
    IF idx >= Len(options) THEN None
    ELSE IF idx >= 0 THEN Some(options[idx + 1])
    ELSE Some(options[Len(options) + idx + 1])

C8_LowestIndexWins ==
    \A p \in DOMAIN sessions :
        (/\ sessions[p].closed
         /\ YesIdx(VotesFn(sessions[p])) # {}
         /\ YesIdx(VotesFn(sessions[p])) \subseteq 0..(Len(sessions[p].proposal.options) - 1))
        => LET idx == LowestMax(VotesFn(sessions[p]))
           IN  /\ (RcdReturned(p) /\ rcd_result.passed)
                      => rcd_result.winning_option = Some(idx)
               /\ (sessions[p].result = Some("accepted"))
                      => DecisionOf(decision_log, p).selected_option
                             = Some(sessions[p].proposal.options[idx + 1])

\* C8, amended: the winning index is an index with the greatest accumulated
\* yes-weight, and among several the one whose first yes vote comes first in
\* the order of the session's votes (so it depends on the order of the
\* casts); run_collaborative_decision returns that index, and the Decision
\* selects the option at it, none when the index is past the end.
C8_EarliestVotedWins ==
    \A p \in DOMAIN sessions :
        (sessions[p].closed /\ YesIdx(VotesFn(sessions[p])) # {})
        => LET idx == EarliestMax(sessions[p])
           IN  /\ idx \in MaxYesIdx(VotesFn(sessions[p]))
               /\ (RcdReturned(p) /\ rcd_result.passed)
                      => rcd_result.winning_option = Some(idx)
               /\ (sessions[p].result = Some("accepted"))
                      => /\ DecisionsIn(decision_log, p) = 1
                         /\ DecisionOf(decision_log, p).selected_option
                                = OptionAt(sessions[p].proposal.options, idx)

\* two indices tie and the higher one, voted first, has won
C8_Witness ==
    /\ DOMAIN rcd_result # {}
    /\ rcd_result.kind = "result"
    /\ rcd_result.passed
    /\ rcd_result.winning_option = Some(1)
    /\ LET p == rcd_result.proposal_id
       IN  /\ YesWeightOn(VotesFn(sessions[p]), 0) = YesWeightOn(VotesFn(sessions[p]), 1)
           /\ sessions[p].result = Some("accepted")
           /\ DecisionOf(decision_log, p).selected_option = Some("B")

\* C10: a session closed with yes_ratio below its threshold has the result
\* rejected and a Decision that selects no option, and the
\* run_collaborative_decision that ran it returns passed = false with no
\* winning option.
C10_BelowThresholdRejected ==
    \A p \in DOMAIN sessions :
        LET votes == VotesFn(sessions[p])
            y == WeightFor(votes, "yes")
            total == y + WeightFor(votes, "no") + WeightFor(votes, "abstain")
            th == sessions[p].proposal.threshold
            below == IF total > 0 THEN y * ThresholdDen < th * total ELSE 0 < th
        IN  (sessions[p].closed /\ below)
            => /\ sessions[p].result = Some("rejected")
               /\ DecisionsIn(decision_log, p) = 1
               /\ DecisionOf(decision_log, p).selected_option = None
               /\ RcdReturned(p)
                      => /\ ~rcd_result.passed
                         /\ rcd_result.winning_option = None

\* run_collaborative_decision has returned not passed on a proposal that got
\* a yes vote for an option
C10_Witness ==
    /\ DOMAIN rcd_result # {}
    /\ rcd_result.kind = "result"
    /\ ~rcd_result.passed
    /\ rcd_result.winning_option = None
    /\ LET p == rcd_result.proposal_id
       IN  /\ sessions[p].result = Some("rejected")
           /\ YesIdx(VotesFn(sessions[p])) # {}
           /\ DecisionOf(decision_log, p).selected_option = None

\* C11: create_proposal with a threshold outside [0,1] is rejected with an
\* InvalidThreshold error before any mutation: it creates no session, so
\* every session has a threshold in [0,1].
C11_InvalidThresholdRejected ==
    /\ [](\A p \in DOMAIN sessions :
             sessions[p].proposal.threshold \in 0..ThresholdDen)
    /\ [][\A o \in OptionLists, t \in ThresholdInputsAll :
             (t # None /\ t[1] \notin 0..ThresholdDen /\ CreateProposal(1, o, t))
             => (sessions' = sessions /\ ret' = "InvalidThreshold")]_vars

\* C12: a step of emergency_halt ends with the kill flag raised, the engine
\* and the bus not running, and every registered agent offline with its
\* _running flag down, the agents that were inside execute_task included
C12_HaltStopsEveryAgent ==
    [][EmergencyHalt =>
          /\ kill_switch'
          /\ ~engine_running'
          /\ ~bus_running'
          /\ \A a \in 1..NumAgents :
                HasKey(agents', a) =>
                    (Status(agents', a) = "offline" /\ ~running'[a])]_vars

\* emergency_halt came while an agent was busy inside execute_task, and the
\* EMERGENCY_HALT message is still in that agent's mailbox
C12_Witness ==
    /\ last.op = "emergency_halt"
    /\ last.agent # 0
    /\ HasKey(agents, last.agent)
    /\ \E i \in 1..Len(queues[last.agent]) :
          queues[last.agent][i].type = "emergency_halt"

\* C13: a running agent that dequeues EMERGENCY_HALT becomes offline with its
\* _running flag down, publishes AGENT_DEREGISTER, and its loop ends with no
\* hook invoked; an ended loop invokes no hook until a new start
C13_HaltMessageStopsAgent ==
    [][\A a \in 1..NumAgents :
          /\ (/\ pc[a] = "wait"
              /\ queues[a] # <<>>
              /\ Head(queues[a]).type = "emergency_halt"
              /\ Dequeue(a))
             => /\ Status(agents', a) = "offline"
                /\ ~running'[a]
                /\ pc'[a] = "none"
                /\ Len(message_log') = Len(message_log) + 1
                /\ message_log'[Len(message_log')].type = "agent_deregister"
                /\ message_log'[Len(message_log')].sender_id = Some(a)
          /\ pc[a] = "none" => pc'[a] \in {"none", "start"}]_vars

\* an agent that was running has handled EMERGENCY_HALT
C13_Witness ==
    /\ last.op = "halt"
    /\ Status(agents, last.agent) = "offline"
    /\ pc[last.agent] = "none"
    /\ message_log[Len(message_log)].type = "agent_deregister"

\* C14: a hook that raises does not end the agent: after the step the agent
\* is still running, back at its mailbox wait with the mailbox untouched, and
\* whenever it waits on a non-empty mailbox it can dequeue
C14_HookExceptionKeepsAgent ==
    /\ [](\A a \in 1..NumAgents :
             (pc[a] = "wait" /\ queues[a] # <<>>) => ENABLED Dequeue(a))
    /\ [][\A a \in 1..NumAgents :
             (pc[a] \in HookPcs /\ HookRaise(a))
             => /\ running'[a] = running[a]
                /\ running'[a]
                /\ pc'[a] = "wait"
                /\ queues' = queues]_vars

\* a hook raised while a message was waiting in the agent's mailbox
C14_Witness ==
    /\ last.op = "hook_raise"
    /\ pc[last.agent] = "wait"
    /\ queues[last.agent] # <<>>

\* C15: an agent is busy while execute_task runs, and when execute_task ends,
\* by returning or by raising, the agent is idle again (a stop in between
\* leaves it offline)
C15_BusyOnlyWhileExecuting ==
    /\ [](\A a \in 1..NumAgents :
             pc[a] = "execute_task" => Status(agents, a) = "busy")
    /\ [][\A a \in 1..NumAgents :
             (/\ pc[a] = "execute_task"
              /\ pc'[a] # "execute_task"
              /\ Status(agents', a) # "offline")
             => Status(agents', a) = "idle"]_vars

\* the head of a's mailbox is a TASK_ASSIGN naming a capability a lacks
MissingCapability(a) ==
    /\ queues[a] # <<>>
    /\ Head(queues[a]).type = "task_assign"
    /\ \E c \in required_capabilities(Head(queues[a]).payload.task) :
          c \notin agents.val[a].capabilities

\* C16: an agent that dequeues a TASK_ASSIGN requiring a capability it lacks
\* publishes one REJECT with a reason, from itself to the assignment's
\* sender, does not enter execute_task and keeps its status
C16_MissingCapabilityRejected ==
    [][\A a \in 1..NumAgents :
          (pc[a] = "wait" /\ MissingCapability(a) /\ Dequeue(a))
          => /\ Len(message_log') = Len(message_log) + 1
             /\ SubSeq(message_log', 1, Len(message_log)) = message_log
             /\ LET reply == message_log'[Len(message_log')]
                IN  /\ reply.type = "reject"
                    /\ reply.sender_id = Some(a)
                    /\ reply.recipient_id = Head(queues[a]).sender_id
                    /\ reply.payload.reason # ""
             /\ pc'[a] # "execute_task"
             /\ cur'[a] = cur[a]
             /\ agents' = agents]_vars

\* an agent has rejected an assignment for a missing capability
C16_Witness ==
    /\ last.op = "reject"
    /\ message_log[Len(message_log)].type = "reject"
    /\ message_log[Len(message_log)].sender_id = Some(last.agent)
    /\ pc[last.agent] # "execute_task"

\* C17: an agent that rejected the task for a missing capability is not in
\* the task's assigned_agents list
C17_RejectedTaskUnassigned ==
    \A i \in 1..Len(message_log) :
       (message_log[i].type = "reject" /\ message_log[i].payload.task = TaskId)
       => \A j \in 1..Len(assigned) : Some(assigned[j]) # message_log[i].sender_id

\* the status changes the lifecycle allows
AllowedStatusChanges ==
    {<<"idle", "busy">>, <<"busy", "idle">>, <<"idle", "offline">>,
     <<"busy", "offline">>}

\* C18: the status of a registered agent changes only from idle to busy, busy
\* to idle, idle to offline or busy to offline, so that offline is terminal
C18_StatusLifecycle ==
    [][\A a \in 1..NumAgents :
          (HasKey(agents, a) /\ HasKey(agents', a)
           /\ Status(agents', a) # Status(agents, a))
          => <<Status(agents, a), Status(agents', a)>> \in AllowedStatusChanges]_vars

\* the most recent n entries of a log
MostRecent(log, n) ==
    IF n >= Len(log) THEN log ELSE SubSeq(log, Len(log) - n + 1, Len(log))

\* C19: a step of publish, send_direct or broadcast appends its message to
\* the audit log, once and at the end, whoever receives it; no step removes
\* or rewrites an entry; get_message_log(limit) is the most recent limit
\* entries
C19_AuditLog ==
    /\ [](\A limit \in 0..MaxLimit :
             get_message_log(message_log, limit) = MostRecent(message_log, limit))
    /\ [][/\ Len(message_log') >= Len(message_log)
          /\ SubSeq(message_log', 1, Len(message_log)) = message_log
          /\ last'.op \in {"send_direct", "broadcast"}
                => Len(message_log') = Len(message_log) + 1]_vars

\* C20: send_direct to an agent id that has been deregistered changes no
\* mailbox and appends the message, addressed to that id, to the audit log
C20_SendToDeregistered ==
    [][(last'.op = "send_direct" /\ last'.agent \notin DOMAIN queues)
          => /\ queues' = queues
             /\ Len(message_log') = Len(message_log) + 1
             /\ SubSeq(message_log', 1, Len(message_log)) = message_log
             /\ message_log'[Len(message_log')].recipient_id = Some(last'.agent)]_vars

\* a message was sent to a deregistered id while another agent's mailbox
\* held messages
C20_Witness ==
    /\ last.op = "send_direct"
    /\ last.agent \notin DOMAIN queues
    /\ ~HasKey(agents, last.agent)
    /\ message_log[Len(message_log)].recipient_id = Some(last.agent)
    /\ \E b \in DOMAIN queues : queues[b] # <<>>

\* C21: a step of broadcast(sender, msg), whatever the type of msg, appends
\* msg to the mailbox of every registered agent other than the sender and
\* leaves the sender's mailbox as it was
C21_BroadcastReachesAll ==
    [][\A s \in Senders, ty \in FanoutTypes :
          Broadcast(s, ty, "")
          => \A a \in DOMAIN queues :
                queues'[a] = IF Some(a) # s
                             THEN Append(queues[a], Message(ty, s, None, "", NoPayload))
                             ELSE queues[a]]_vars

\* C22: a step that publishes a message with a non-empty topic, by
\* send_direct or by broadcast, calls every handler subscribed to the topic
C22_TopicDispatch ==
    [][(/\ last'.op \in {"send_direct", "broadcast"}
        /\ Len(message_log') = Len(message_log) + 1
        /\ message_log'[Len(message_log')].topic # "")
          => last'.notified = Len(subscribers)]_vars

\* C23: a broadcast under the topic, whatever handlers raise, calls every
\* subscribed handler, lets no exception out and appends the message to
\* every mailbox a message of its type is fanned out to
C23_HandlerFailureContained ==
    [][\A s \in Senders, ty \in FanoutTypes :
          Broadcast(s, ty, "t")
          => /\ last'.notified = Len(subscribers)
             /\ ~last'.raised
             /\ ty \in BroadcastTypes
                   => \A a \in DOMAIN queues :
                         queues'[a] =
                            IF Some(a) # s
                            THEN Append(queues[a], Message(ty, s, None, "t", NoPayload))
                            ELSE queues[a]]_vars

\* a broadcast went through a raising handler followed by another handler,
\* and reached a mailbox
C23_Witness ==
    /\ last.op = "broadcast"
    /\ Len(subscribers) = 2
    /\ subscribers[1] = "raises"
    /\ last.notified = 2
    /\ \E a \in DOMAIN queues :
          /\ queues[a] # <<>>
          /\ queues[a][Len(queues[a])] = message_log[Len(message_log)]

\* C24: a step of send_direct(sender, recipient, msg) to a recipient with a
\* mailbox appends msg, carrying that sender and that recipient, once at the
\* tail of the recipient's mailbox and to the log, and changes no other
\* mailbox
C24_SendDirectDelivers ==
    [][\A s \in Senders, a \in 1..NumAgents :
          (a \in DOMAIN queues /\ SendDirect(s, a, "broadcast", ""))
          => LET sent == Message("broadcast", s, Some(a), "", NoPayload)
             IN  /\ queues' = [queues EXCEPT ![a] = Append(@, sent)]
                 /\ message_log' = Append(message_log, sent)]_vars

\* a message from an agent was sent to a mailbox that already held one
C24_Witness ==
    /\ last.op = "send_direct"
    /\ last.agent \in DOMAIN queues
    /\ Len(queues[last.agent]) >= 2
    /\ queues[last.agent][Len(queues[last.agent])].sender_id # None
    /\ queues[last.agent][Len(queues[last.agent])].recipient_id = Some(last.agent)

\* s is a prefix of t
IsPrefix(s, t) == Len(s) <= Len(t) /\ SubSeq(t, 1, Len(s)) = s

\* C25: in every step a mailbox either keeps its messages in order, new ones
\* going behind them, or loses its oldest message to its agent's loop, which
\* handles that message; so an agent handles its messages in the order they
\* were enqueued
C25_MailboxFifo ==
    [][\A a \in (DOMAIN queues) \cap (DOMAIN queues') :
          \/ IsPrefix(queues[a], queues'[a])
          \/ /\ pc[a] = "wait"
             /\ queues[a] # <<>>
             /\ IsPrefix(Tail(queues[a]), queues'[a])
             /\ pc'[a] \in {"execute_task", "evaluate_proposal", "on_message"}
                   => cur'[a] = Some(Head(queues[a]))]_vars

\* an agent is handling a message while a different one, logged later, waits
\* in its mailbox
C25_Witness ==
    \E a \in 1..NumAgents :
       /\ pc[a] \in {"execute_task", "evaluate_proposal", "on_message"}
       /\ queues[a] # <<>>
       /\ cur[a] # Some(queues[a][1])
       /\ \E i, j \in 1..Len(message_log) :
             /\ i < j
             /\ Some(message_log[i]) = cur[a]
             /\ message_log[j] = queues[a][1]

\* the registered agents that are idle and hold every capability the task
\* requires
Qualified(task) ==
    {a \in 1..NumAgents :
        /\ HasKey(agents, a)
        /\ agents.val[a].status = "idle"
        /\ \A c \in required_capabilities(task) : c \in agents.val[a].capabilities}

\* assign_task(task, agent_id) is due to return False
NoTarget(task, agent_id) ==
    IF agent_id # None THEN ~HasKey(agents, agent_id[1]) ELSE Qualified(task) = {}

\* C26: assign_task returns False exactly when the named target is not
\* registered or, no target being named, no idle agent holds every required
\* capability; and then the task's assignment list, the mailboxes, the audit
\* log and the agents are as before
C26_FailedAssignChangesNothing ==
    [][\A agent_id \in AssignTargets :
          AssignTask(agent_id)
          => /\ last'.op = "assign_false" <=> NoTarget(TaskId, agent_id)
             /\ NoTarget(TaskId, agent_id)
                   => UNCHANGED <<assigned, queues, message_log, agents>>]_vars

\* assign_task returned False with nothing assigned, mailboxes empty
C26_Witness ==
    /\ last.op = "assign_false"
    /\ assigned = <<>>
    /\ message_log = <<>>
    /\ \A a \in DOMAIN queues : queues[a] = <<>>

\* the position of agent a in the registry's iteration order
RegistryPos(a) == CHOOSE i \in 1..Len(agents.keys) : agents.keys[i] = a

\* C27: the agent assign_task selects when no target is named is idle, holds
\* every required capability, has the greatest expertise score among such
\* agents and comes first in registry order among those of that score
C27_AutoSelectBest ==
    [][(AssignTask(None) /\ last'.op = "assign_true")
          => /\ last'.agent \in Qualified(TaskId)
             /\ \A b \in Qualified(TaskId) :
                   /\ agents.val[b].expertise_score
                         <= agents.val[last'.agent].expertise_score
                   /\ agents.val[b].expertise_score
                         = agents.val[last'.agent].expertise_score
                         => RegistryPos(last'.agent) <= RegistryPos(b)]_vars

\* an agent was selected among several qualified agents of the greatest
\* score, registered in an order that is not the order of their ids
C27_Witness ==
    /\ last.op = "assign_true"
    /\ Len(assigned) = 1
    /\ queues[last.agent] # <<>>
    /\ \E b \in Qualified(TaskId) :
          /\ b < last.agent
          /\ agents.val[b].expertise_score = agents.val[last.agent].expertise_score

\* C28: when assign_task returns True the chosen agent's id is appended once
\* to the task's assignment list, and one TASK_ASSIGN message for the task is
\* appended to that agent's mailbox and to no other
C28_AssignRecordsAndDelivers ==
    [][\A agent_id \in AssignTargets :
          (AssignTask(agent_id) /\ last'.op = "assign_true")
          => /\ assigned' = Append(assigned, last'.agent)
             /\ agent_id # None => last'.agent = agent_id[1]
             /\ queues' = [queues EXCEPT ![last'.agent] =
                              Append(@, Message("task_assign", None, Some(last'.agent),
                                                "", to_dict(TaskGiven)))]]_vars

\* a second assignment of the task went to another agent
C28_Witness ==
    /\ last.op = "assign_true"
    /\ Len(assigned) = 2
    /\ assigned[1] # assigned[2]
    /\ assigned[2] = last.agent
    /\ Len(queues[assigned[1]]) = 1
    /\ Len(queues[assigned[2]]) = 1

\* no registered agent passes the role and capability filters
NoEligibleVoter(voter_role, required_capability) ==
    \A a \in 1..NumAgents :
       HasKey(agents, a)
       => \/ voter_role # None /\ agents.val[a].role # voter_role[1]
          \/ /\ required_capability # None
             /\ required_capability[1] \notin agents.val[a].capabilities

\* C29: run_collaborative_decision with no agent passing its filters returns
\* (False, None, the "No eligible voters" error) and creates no session,
\* publishes no message, appends no Decision and starts no voting round
C29_NoVotersNoEffect ==
    [][\A o \in OptionLists, t \in ThresholdInputs,
          r \in {None} \cup {Some(x) : x \in AgentRoles},
          c \in {None} \cup {Some(x) : x \in Capabilities} :
          (/\ NoEligibleVoter(r, c)
           /\ \/ RunCollaborativeDecisionNoVoters(r, c)
              \/ RunCollaborativeDecision(o, r, c, t))
          => /\ rcd_result' = NoVotersResult
             /\ ~rcd_result'.passed
             /\ rcd_result'.winning_option = None
             /\ UNCHANGED <<sessions, message_log, decision_log, round>>]_vars

\* the call found no voter after an earlier call had made a decision
C29_Witness ==
    /\ rcd_result = NoVotersResult
    /\ Len(sessions) >= 1
    /\ Len(decision_log) >= 1
    /\ round.status # "collecting"

\* C30: the weights of a constructed UtilityFunction sum to 1, and they are
\* the defaults 0.4, 0.3, 0.3 when the given weights sum to 0 or less
C30_WeightsNormalized ==
    utility.built
    => /\ utility.w[1] + utility.w[2] + utility.w[3] = utility.den
       /\ (/\ utility.given # None
           /\ utility.given[1][1] + utility.given[1][2] + utility.given[1][3] <= 0)
          => \A i \in 1..3 : utility.w[i] * Tenths = DefaultWeights[i] * utility.den

---------------------------------------------------------------------------
\* C31: the loop enters _autonomous_cycle only from an iteration whose
\* mailbox wait timed out with no message, with the agent idle; an
\* iteration that handled a message never enters it
C31_AutonomousOnlyWithoutMessage ==
    [][\A a \in 1..NumAgents :
          (pc'[a] = "autonomous_cycle" /\ pc[a] # "autonomous_cycle")
          => /\ last' = Op("timeout", a)
             /\ Status(agents, a) = "idle"]_vars

\* the status of agent object a, registered or not
StatusOf(reg, det, a) == IF HasKey(reg, a) THEN reg.val[a].status ELSE det[a].status

\* C32: a step that changes the status of an agent is a step of
\* AgentEngine.stop or emergency_halt, or a step of that agent's own task
\* (its start, its handling of a message, its execute_task); register_agent,
\* deregister_agent, start_agent, assign_task, run_collaborative_decision
\* and get_system_status change no status
C32_StatusOwnedByAgent ==
    [][\A a \in 1..NumAgents :
          StatusOf(agents', detached', a) # StatusOf(agents, detached, a)
          => \/ EngineStop
             \/ EmergencyHalt
             \/ AgentStart(a)
             \/ Dequeue(a)
             \/ ExecuteTaskReturnIdle(a)]_vars

\* start_agent was called for an agent that is offline, and it still is
C32_Witness ==
    /\ last = Op("start_agent", 2)
    /\ Status(agents, 2) = "offline"
    /\ pc[2] = "start"

\* C33: when a running agent handles a STATE_UPDATE message with payload P,
\* its knowledge afterwards maps every key of P to P's value for that key
\* and keeps every other key as it was
C33_StateUpdateMergesPayload ==
    [][\A a \in 1..NumAgents :
          (Dequeue(a) /\ running[a] /\ Head(queues[a]).type = "state_update")
          => LET P == Head(queues[a]).payload
             IN  /\ \A k \in DOMAIN P :
                       k \in DOMAIN knowledge'[a] /\ knowledge'[a][k] = P[k]
                 /\ \A k \in (DOMAIN knowledge[a]) \ (DOMAIN P) :
                       k \in DOMAIN knowledge'[a]
                       /\ knowledge'[a][k] = knowledge[a][k]]_vars

\* C34: create_proposal given a threshold t in [0,1] opens a session whose
\* threshold is t, t = 0 included; given no threshold it opens one with the
\* default threshold
C34_ExplicitThresholdKept ==
    [][\A o \in OptionLists, t \in ThresholdInputsAll :
          CreateProposal(1, o, t)
          => LET th == sessions'[Len(sessions')].proposal.threshold
             IN  /\ (t # None /\ t[1] \in 0..ThresholdDen) => th = t[1]
                 /\ t = None => th = default_threshold]_vars

\* C35: the result run_collaborative_decision returned for proposal p agrees
\* with the Decision recorded for p: passed exactly when the session result
\* is accepted, no winning option exactly when the Decision selects none,
\* and otherwise the winning option is an index into the option list and
\* the Decision selects the option at that index
C35_ResultAgreesWithDecision ==
    \A p \in DOMAIN sessions :
        (RcdReturned(p) /\ DecisionsIn(decision_log, p) > 0)
        => LET d == DecisionOf(decision_log, p)
               options == sessions[p].proposal.options
               w == rcd_result.winning_option
           IN  /\ rcd_result.passed <=> sessions[p].result = Some("accepted")
               /\ (w = None) <=> (d.selected_option = None)
               /\ w # None => /\ w[1] \in 0..(Len(options) - 1)
                              /\ d.selected_option = Some(options[w[1] + 1])

\* C36: whatever start_agent, start_all_agents, deregister_agent and stop
\* calls are made, a registered agent has at most one live loop task, and a
\* step of AgentEngine.stop leaves no loop task alive
C36_OneLoopPerAgent ==
    /\ [](\A a \in 1..NumAgents :
             HasKey(agents, a) => Cardinality(LiveLoops(a)) <= 1)
    /\ [][EngineStop => \A l \in Loops : pc'[l] = "none"]_vars

\* C37: between an emergency_halt and the next start of the engine, a call of
\* assign_task, with or without a named target, puts no message into any
\* mailbox, appends nothing to the task's assignment list and returns False
C37_NoAssignAfterHalt ==
    [][\A agent_id \in AssignTargets :
          (kill_switch /\ ~engine_running /\ AssignTask(agent_id))
          => /\ queues' = queues
             /\ assigned' = assigned
             /\ last'.op = "assign_false"]_vars

\* C38: the task a loop passes to execute_task has the id, the priority and
\* the required capabilities of the task that was given to assign_task
C38_ExecutedTaskIsAssignedTask ==
    \A l \in Loops :
        pc[l] = "execute_task"
        => LET task == task_from_payload(cur[l][1].payload)
           IN  /\ task.id = TaskGiven.id
               /\ task.priority = TaskGiven.priority
               /\ task.required_capabilities = TaskGiven.required_capabilities

\* C39: in every reachable state the decision log holds as many Decisions as
\* there are closed sessions and a session has a result exactly when it is
\* closed; every step leaves the decision log as it was or appends to it
C39_LogMatchesClosedSessions ==
    /\ [](/\ Len(decision_log) =
               Cardinality({p \in DOMAIN sessions : sessions[p].closed})
          /\ \A p \in DOMAIN sessions :
                (sessions[p].result # None) <=> sessions[p].closed)
    /\ [][IsPrefix(decision_log, decision_log')]_vars

\* the ids under which the registry holds an agent
RegistryIds == {agents.keys[i] : i \in 1..Len(agents.keys)}

\* C40: whatever register_agent and deregister_agent calls were made, the
\* ids in the engine's registry are the ids that have a mailbox in the bus,
\* and the status snapshot counts as many agents as bus agents
C40_RegistryMatchesMailboxes ==
    /\ RegistryIds = DOMAIN queues
    /\ LET s == get_system_status(agents, queues, decision_log,
                                  engine_running, kill_switch)
       IN  s.total_agents = s.message_bus_agents

\* an agent was deregistered and registered again: it is last in the
\* registry and has a new, empty mailbox, while the other's holds a task
C40_Witness ==
    /\ last = Op("register", 1)
    /\ agents.keys = <<2, 1>>
    /\ queues[1] = <<>>
    /\ queues[2] # <<>>

=============================================================================
